---- MODULE Spec2Model ----
(***************************************************************************)
(* Model of the akshare data tools (src/src/tools/akshare-api.py): the     *)
(* value extractors, the ratio registry of search_line_items and the       *)
(* period alignment of get_financial_metrics with its cache and its        *)
(* single-source fallback.                                                 *)
(*                                                                         *)
(* Python floats are modelled as exact decimal rationals n/d * 10^e plus   *)
(* the two non-finite values NaN and +-inf; binary rounding is not         *)
(* modelled.  Strings are sequences of tokens: one token per character,    *)
(* except that the words False, nan, NaN and inf are single tokens and     *)
(* the unit characters U+4EBF (10^8) and U+4E07 (10^4) are written as the  *)
(* tokens "yi" and "wan".                                                  *)
(***************************************************************************)
EXTENDS Integers, Sequences, FiniteSets, TLC

VARIABLES
    xin,        \* extractor harness: the raw cell handed to an extractor
    xmul,       \* extractor harness: the multiplier argument
    xfn,        \* extractor harness: which extractor ran ("" before the call)
    xout,       \* extractor harness: what the extractor returned or raised
    qrow,       \* ratio harness: the provider row read by get_field_value
    qname,      \* ratio harness: the requested field name ("" before the call)
    qout,       \* ratio harness: what get_field_value returned or raised
    benefit,    \* provider: the income (benefit) statement table
    debt,       \* provider: the balance-sheet (debt) table
    abstract,   \* provider: the consolidated table read by the fallback
    cache,      \* _cache: cache key -> stored list of record dumps
    ncalls,     \* number of get_financial_metrics calls made
    call,       \* the latest get_financial_metrics call and its outcome
    vdata,      \* valuation harness: what the market-data provider holds
    vratio,     \* valuation harness: the ratio handed to the assessors
    vfn,        \* valuation harness: which function ran ("" before the call)
    vout,       \* valuation harness: what it returned
    industry,   \* the industry tag the provider reports for the subject
    peers,      \* the peer list the provider reports for the subject
    analysis,   \* the latest Warren Buffett analysis returned
    rfn,        \* quote functions: which one was called ("" before the call)
    rtickers,   \* quote functions: the tickers asked for
    rpc,        \* quote functions: where the call stands
    attempt,    \* quote functions: the retry loop's attempt index
    primary_calls,  \* quote functions: calls made to the primary provider
    primary_raised, \* quote functions: primary attempts that raised
    backup_runs,    \* quote functions: runs of the backup method
    rout,       \* quote functions: what the call returned or raised
    response    \* StockService: the latest get_stock_analysis outcome

xvars == <<xin, xmul, xfn, xout>>

qvars == <<qrow, qname, qout>>

mvars == <<benefit, debt, abstract, cache, ncalls, call>>

vvars == <<vdata, vratio, vfn, vout>>

bvars == <<industry, peers, analysis>>

rvars == <<rfn, rtickers, rpc, attempt, primary_calls, primary_raised,
           backup_runs, rout>>

svars == <<response>>

vars == <<xin, xmul, xfn, xout, qrow, qname, qout,
          benefit, debt, abstract, cache, ncalls, call,
          vdata, vratio, vfn, vout, industry, peers, analysis,
          rfn, rtickers, rpc, attempt, primary_calls, primary_raised,
          backup_runs, rout, response>>

----------------------------------------------------------------------------
(* Bounds of the model *)

MaxLen == 3          \* longest enumerated token string

MaxPeriod == 4       \* reporting periods are 1..MaxPeriod, later ones greater

MaxRows == 3         \* most rows in a statement table

MaxLimit == 3        \* limits range over -1..MaxLimit

MaxCalls == 1        \* get_financial_metrics calls per behaviour

----------------------------------------------------------------------------
(* Numbers *)

Abs(i) == IF i < 0 THEN -i ELSE i

Min(a, b) == IF a < b THEN a ELSE b

Max(a, b) == IF a > b THEN a ELSE b

RECURSIVE GCD(_, _)
GCD(a, b) == IF b = 0 THEN a ELSE GCD(b, a % b)

RECURSIVE Pow10(_)
Pow10(k) == IF k <= 0 THEN 1 ELSE 10 * Pow10(k - 1)

\* missing (Python None), NaN and the infinities
None == [k |-> "none"]

NaN == [k |-> "nan"]

Inf(s) == [k |-> "inf", s |-> s]

\* make the denominator coprime to 10 by moving factors 2 and 5 into e
RECURSIVE FixDen(_, _, _)
FixDen(n, d, e) ==
    IF d % 2 = 0 THEN FixDen(n * 5, d \div 2, e - 1)
    ELSE IF d % 5 = 0 THEN FixDen(n * 2, d \div 5, e - 1)
    ELSE [n |-> n, d |-> d, e |-> e]

\* move factors 10 of the numerator into e
RECURSIVE StripTens(_, _, _)
StripTens(n, d, e) ==
    IF n # 0 /\ n % 10 = 0 THEN StripTens(n \div 10, d, e + 1)
    ELSE [k |-> "num", n |-> n, d |-> d, e |-> e]

\* the finite number n/d * 10^e in canonical form (d > 0 required)
Num(n, d, e) ==
    IF n = 0 THEN [k |-> "num", n |-> 0, d |-> 1, e |-> 0]
    ELSE LET g == GCD(Abs(n), d)
             f == FixDen(n \div g, d \div g, e)
         IN  StripTens(f.n, f.d, f.e)

IntNum(i) == Num(i, 1, 0)

IsFinite(v) == v.k = "num"

IsZero(v) == v.k = "num" /\ v.n = 0

Sign(v) == IF v.k = "inf" THEN v.s
           ELSE IF v.n > 0 THEN 1 ELSE IF v.n < 0 THEN -1 ELSE 0

\* float * float
Mul(a, b) ==
    IF a.k = "nan" \/ b.k = "nan" THEN NaN
    ELSE IF a.k = "inf" \/ b.k = "inf"
         THEN IF IsZero(a) \/ IsZero(b) THEN NaN ELSE Inf(Sign(a) * Sign(b))
    ELSE Num(a.n * b.n, a.d * b.d, a.e + b.e)

\* float - float
Sub(a, b) ==
    IF a.k = "nan" \/ b.k = "nan" THEN NaN
    ELSE IF a.k = "inf"
         THEN IF b.k = "inf" /\ b.s = a.s THEN NaN ELSE a
    ELSE IF b.k = "inf" THEN Inf(-b.s)
    ELSE LET e == Min(a.e, b.e)
         IN  Num(a.n * Pow10(a.e - e) * b.d - b.n * Pow10(b.e - e) * a.d,
                 a.d * b.d, e)

\* float + float
Add(a, b) == Sub(a, Mul(b, IntNum(-1)))

\* float / float for a divisor that is not zero
Div(a, b) ==
    IF a.k = "nan" \/ b.k = "nan" THEN NaN
    ELSE IF a.k = "inf"
         THEN IF b.k = "inf" THEN NaN ELSE Inf(a.s * Sign(b))
    ELSE IF b.k = "inf" THEN IntNum(0)
    ELSE IF b.n < 0 THEN Num(-(a.n * b.d), a.d * (-b.n), a.e - b.e)
    ELSE Num(a.n * b.d, a.d * b.n, a.e - b.e)

----------------------------------------------------------------------------
(* Strings *)

Digits == {"0", "1", "2", "3", "4", "5", "6", "7", "8", "9"}

DigitVal(c) ==
    CASE c = "0" -> 0 [] c = "1" -> 1 [] c = "2" -> 2 [] c = "3" -> 3
      [] c = "4" -> 4 [] c = "5" -> 5 [] c = "6" -> 6 [] c = "7" -> 7
      [] c = "8" -> 8 [] c = "9" -> 9

Contains(s, c) == \E i \in 1..Len(s) : s[i] = c

\* str.replace(c, '')
RECURSIVE Remove(_, _)
Remove(s, c) ==
    IF s = <<>> THEN <<>>
    ELSE IF Head(s) = c THEN Remove(Tail(s), c)
    ELSE <<Head(s)>> \o Remove(Tail(s), c)

RECURSIVE LStrip(_)
LStrip(s) == IF s # <<>> /\ Head(s) = " " THEN LStrip(Tail(s)) ELSE s

RECURSIVE RStrip(_)
RStrip(s) ==
    IF s # <<>> /\ s[Len(s)] = " " THEN RStrip(SubSeq(s, 1, Len(s) - 1)) ELSE s

RECURSIVE DigitsVal(_)
DigitsVal(s) ==
    IF s = <<>> THEN 0
    ELSE DigitsVal(SubSeq(s, 1, Len(s) - 1)) * 10 + DigitVal(s[Len(s)])

\* outcome of a call: a returned value or a raised exception
Ret(v) == [o |-> "return", v |-> v]

Raise(x) == [o |-> "raise", exc |-> x]

\* float(str): surrounding whitespace, an optional sign, then nan, inf or
\* digits with at most one decimal point
ParseFloat(str) ==
    LET t    == RStrip(LStrip(str))
        neg  == t # <<>> /\ Head(t) = "-"
        b    == IF neg THEN Tail(t) ELSE t
        dots == {i \in 1..Len(b) : b[i] = "."}
        frac == IF dots = {} THEN 0 ELSE Len(b) - (CHOOSE i \in dots : TRUE)
        ds   == Remove(b, ".")
        sg   == IF neg THEN -1 ELSE 1
    IN  IF b = <<"nan">> \/ b = <<"NaN">> THEN Ret(NaN)
        ELSE IF b = <<"inf">> THEN Ret(Inf(sg))
        ELSE IF /\ ds # <<>>
                /\ \A i \in 1..Len(ds) : ds[i] \in Digits
                /\ Cardinality(dots) <= 1
             THEN Ret(Num(sg * DigitsVal(ds), 1, -frac))
        ELSE Raise("ValueError")

----------------------------------------------------------------------------
(* Raw cells of a provider table *)

CNone == [t |-> "none"]                 \* None

CBool(b) == [t |-> "bool", b |-> b]     \* True / False

CNum(v) == [t |-> "num", v |-> v]       \* an int or float, NaN and inf included

CNA == [t |-> "na"]                     \* the pandas NA marker (pd.NA)

CBig == [t |-> "bigint"]                \* a Python int beyond the float range

CStr(s) == [t |-> "str", s |-> s]       \* a string

\* value == item, as list membership evaluates it: "yes", "no", or "raise"
\* when the comparison yields pd.NA, whose truth value is a TypeError
PyEq(value, item) ==
    IF value.t = "na" THEN "raise"
    ELSE IF value = item THEN "yes"
    ELSE IF /\ item.t = "bool" /\ value.t = "num"
            /\ value.v = IntNum(IF item.b THEN 1 ELSE 0) THEN "yes"
    ELSE "no"

\* value in [items...], comparing left to right
RECURSIVE PyIn(_, _)
PyIn(value, items) ==
    IF items = <<>> THEN "no"
    ELSE LET r == PyEq(value, Head(items))
         IN  IF r = "no" THEN PyIn(value, Tail(items)) ELSE r

\* float(value) for a value that is not a string
FloatOf(value) ==
    CASE value.t = "num"    -> Ret(value.v)
      [] value.t = "bool"   -> Ret(IntNum(IF value.b THEN 1 ELSE 0))
      [] value.t = "bigint" -> Raise("OverflowError")
      [] OTHER              -> Raise("TypeError")

\* float(value) for any value
ToFloat(value) == IF value.t = "str" THEN ParseFloat(value.s) ELSE FloatOf(value)

\* the except (ValueError, TypeError) clause around a conversion
Caught(r, default) ==
    IF r.o = "raise" /\ r.exc \in {"ValueError", "TypeError"} THEN Ret(default)
    ELSE r

\* r * f for a conversion outcome r
Times(r, f) == IF r.o = "raise" THEN r ELSE Ret(Mul(r.v, f))

\* mutant of Yi: the ten-thousand factor used for the hundred-million unit
Yi_as_wan == Num(1, 1, 4)

Yi == Num(1, 1, 8)       \* 100000000

Wan == Num(1, 1, 4)      \* 10000

\* what safe_extract_value returns for a sentinel
\* mutant of SentinelResult: the 0.0 default of the line-item extractor
SentinelResult_zero == IntNum(0)

SentinelResult == None

\* safe_extract_value of the aligned path
safe_extract_value(value, multiplier) ==
    LET s == PyIn(value, <<CNone, CStr(<<"False">>), CBool(FALSE),
                           CStr(<<>>), CStr(<<"nan">>)>>)
    IN  IF s = "raise" THEN Raise("TypeError")
        ELSE IF s = "yes" THEN Ret(SentinelResult)
        ELSE IF value.t = "str"
             THEN IF Contains(value.s, "yi")
                  THEN Caught(Times(Times(ParseFloat(Remove(value.s, "yi")), Yi),
                                    multiplier), None)
                  ELSE IF Contains(value.s, "wan")
                  THEN Caught(Times(Times(ParseFloat(Remove(value.s, "wan")), Wan),
                                    multiplier), None)
                  ELSE IF Contains(value.s, "%")
                  THEN Caught(ParseFloat(Remove(value.s, "%")), None)
                  ELSE Caught(Times(ParseFloat(Remove(Remove(value.s, ","), " ")),
                                    multiplier), None)
        ELSE Caught(Times(FloatOf(value), multiplier), None)

\* safe_float of get_financial_metrics_fallback
safe_float_fallback(value, default) ==
    LET s == PyIn(value, <<CNone, CStr(<<"False">>), CBool(FALSE), CStr(<<>>)>>)
    IN  IF s = "raise" THEN Raise("TypeError")
        ELSE IF s = "yes" THEN Ret(default)
        ELSE IF value.t = "str" /\ Contains(value.s, "yi")
             THEN Caught(Times(ParseFloat(Remove(value.s, "yi")), Yi), default)
        ELSE IF value.t = "str" /\ Contains(value.s, "wan")
             THEN Caught(Times(ParseFloat(Remove(value.s, "wan")), Wan), default)
        ELSE IF value.t = "str" /\ Contains(value.s, "%")
             THEN Caught(ParseFloat(Remove(value.s, "%")), default)
        ELSE Caught(ToFloat(value), default)

\* safe_float of search_line_items
safe_float_line_items(value, default) ==
    LET s == PyIn(value, <<CNone, CStr(<<"False">>), CBool(FALSE),
                           CStr(<<>>), CStr(<<"nan">>)>>)
    IN  IF s = "raise" THEN Raise("TypeError")
        ELSE IF s = "yes" THEN Ret(default)
        ELSE IF value.t = "str" /\ Contains(value.s, "yi")
             THEN Caught(Times(ParseFloat(Remove(value.s, "yi")), Yi), default)
        ELSE IF value.t = "str" /\ Contains(value.s, "wan")
             THEN Caught(Times(ParseFloat(Remove(value.s, "wan")), Wan), default)
        ELSE IF value.t = "str" /\ Contains(value.s, "%")
             THEN Caught(ParseFloat(Remove(value.s, "%")), default)
        ELSE Caught(ToFloat(value), default)

----------------------------------------------------------------------------
(* Inputs of the extractor harness *)

Alphabet == {"0", "1", "5", ".", ",", " ", "-", "yi", "wan", "%", "x",
             "nan", "NaN", "inf", "False"}

\* all token strings of length at most n
RECURSIVE StringsUpTo(_)
StringsUpTo(n) ==
    IF n = 0 THEN {<<>>}
    ELSE LET shorter == StringsUpTo(n - 1)
         IN  shorter \cup {Append(s, c) : s \in shorter, c \in Alphabet}

\* decimal numerals: digits, optionally a point and more digits
Numerals == {<<"2">>, <<"1", ".", "5">>, <<"1", "2", ".", "5">>, <<"0", ".", "5">>,
             <<"1", "0">>, <<"3", "4">>, <<"0">>}

Suffixes == {"yi", "wan", "%"}

ExampleStrings ==
    {Append(n, u) : n \in Numerals, u \in Suffixes}
    \cup {<<"1", ",", "2", "3", "4">>, <<"1", " ", "2", "3", "4">>,
          <<"1", ",", "2", "3", "4", "wan">>, <<"1", ".", "5", "yi", "wan">>,
          <<"1", "2", ".", "5">>}

Floats == {IntNum(0), IntNum(1), IntNum(-3), Num(5, 1, -1), NaN, Inf(1), Inf(-1)}

Cells == {CNone, CBool(TRUE), CBool(FALSE), CNA, CBig}
         \cup {CNum(v) : v \in Floats}
         \cup {CStr(s) : s \in StringsUpTo(MaxLen) \cup ExampleStrings}

Multipliers == {IntNum(1), IntNum(0), IntNum(-2), Num(5, 1, -1)}

----------------------------------------------------------------------------
(* Extractor harness: one cell, one multiplier, one call *)

\* the get_financial_metrics machine at rest
MIdle ==
    /\ benefit = [st |-> "none", rows |-> <<>>]
    /\ debt = [st |-> "none", rows |-> <<>>]
    /\ abstract = [st |-> "unfetched", rows |-> <<>>]
    /\ cache = << >>
    /\ ncalls = 0
    /\ call = [path |-> "none"]

\* the ratio harness at rest
QIdle == qrow = << >> /\ qname = "" /\ qout = Ret(None)

\* the valuation harness at rest
VIdle == vdata = << >> /\ vratio = None /\ vfn = "" /\ vout = << >>

\* no analysis asked for
BIdle == industry = << >> /\ peers = << >> /\ analysis = [kind |-> "none"]

\* no quote function called
RIdle ==
    /\ rfn = ""
    /\ rtickers = << >>
    /\ rpc = "idle"
    /\ attempt = 0
    /\ primary_calls = 0
    /\ primary_raised = 0
    /\ backup_runs = 0
    /\ rout = [o |-> "none"]

\* no analysis asked of the service
SIdle == response = [st |-> "none"]

InitExtract ==
    /\ xin \in Cells
    /\ xmul \in Multipliers
    /\ xfn = ""
    /\ xout = Ret(None)
    /\ QIdle
    /\ MIdle
    /\ VIdle
    /\ BIdle
    /\ RIdle
    /\ SIdle

Call_safe_extract_value ==
    /\ xfn = ""
    /\ xfn' = "safe_extract_value"
    /\ xout' = safe_extract_value(xin, xmul)
    /\ UNCHANGED <<xin, xmul, qvars, mvars, vvars, bvars, rvars, svars>>

Call_safe_float_fallback ==
    /\ xfn = ""
    /\ xfn' = "safe_float_fallback"
    /\ xout' = safe_float_fallback(xin, None)
    /\ UNCHANGED <<xin, xmul, qvars, mvars, vvars, bvars, rvars, svars>>

Call_safe_float_line_items ==
    /\ xfn = ""
    /\ xfn' = "safe_float_line_items"
    /\ xout' = safe_float_line_items(xin, IntNum(0))
    /\ UNCHANGED <<xin, xmul, qvars, mvars, vvars, bvars, rvars, svars>>

NextExtract ==
    \/ Call_safe_extract_value
    \/ Call_safe_float_fallback
    \/ Call_safe_float_line_items

SpecExtract == InitExtract /\ [][NextExtract]_vars

----------------------------------------------------------------------------
(* search_line_items: field mapping and ratio registry.  Provider column   *)
(* names are written as ASCII identifiers.                                 *)

field_mapping ==
    [net_income |-> "col_net_profit",
     revenue |-> "col_total_revenue",
     total_assets |-> "col_total_assets",
     total_liabilities |-> "col_total_liabilities",
     current_assets |-> "col_current_assets",
     current_liabilities |-> "col_current_liabilities",
     shareholders_equity |-> "col_equity",
     earnings_per_share |-> "col_eps",
     book_value_per_share |-> "col_bvps",
     free_cash_flow |-> "col_operating_cash_flow",
     depreciation |-> "col_depreciation",
     capex |-> "col_capex",
     ebit |-> "col_operating_profit",
     ebitda |-> "col_ebitda",
     outstanding_shares |-> "col_total_shares",
     dividends_and_other_cash_distributions |-> "col_dividends_paid",
     operating_income |-> "col_operating_profit",
     gross_profit |-> "col_gross_profit",
     operating_expenses |-> "col_total_operating_cost",
     cash_and_cash_equivalents |-> "col_cash",
     inventory |-> "col_inventory",
     accounts_receivable |-> "col_receivables",
     accounts_payable |-> "col_payables",
     long_term_debt |-> "col_long_term_loans",
     short_term_debt |-> "col_short_term_loans",
     interest_expense |-> "col_interest_expense",
     income_tax_expense |-> "col_income_tax",
     research_and_development |-> "col_rd_expense",
     selling_general_administrative |-> "col_selling_expense",
     cost_of_revenue |-> "col_operating_cost",
     operating_cash_flow |-> "col_operating_cash_flow",
     investing_cash_flow |-> "col_investing_cash_flow",
     financing_cash_flow |-> "col_financing_cash_flow",
     weighted_average_shares |-> "col_total_shares",
     diluted_weighted_average_shares |-> "col_total_shares"]

calculated_fields ==
    [working_capital |-> <<"col_current_assets", "col_current_liabilities">>,
     book_value |-> <<"col_total_assets", "col_total_liabilities">>,
     debt_to_equity |-> <<"col_total_liabilities", "col_equity">>,
     total_debt |-> <<"col_long_term_loans", "col_short_term_loans">>,
     net_debt |-> <<"col_long_term_loans", "col_short_term_loans", "col_cash">>,
     return_on_equity |-> <<"col_net_profit", "col_equity">>,
     return_on_assets |-> <<"col_net_profit", "col_total_assets">>,
     asset_turnover |-> <<"col_total_revenue", "col_total_assets">>,
     current_ratio |-> <<"col_current_assets", "col_current_liabilities">>,
     quick_ratio |-> <<"col_current_assets", "col_inventory",
                       "col_current_liabilities">>,
     gross_margin |-> <<"col_gross_profit", "col_total_revenue">>,
     operating_margin |-> <<"col_operating_profit", "col_total_revenue">>,
     net_margin |-> <<"col_net_profit", "col_total_revenue">>]

\* row.get(col): None when the row has no such column
RowGet(row, col) == IF col \in DOMAIN row THEN row[col] ELSE CNone

\* the first raised outcome of a sequence of outcomes, if any
FirstRaise(rs) ==
    LET bad == {i \in 1..Len(rs) : rs[i].o = "raise"}
    IN  IF bad = {} THEN Ret(None)
        ELSE rs[CHOOSE i \in bad : \A j \in bad : i <= j]

\* numerator / denominator (times 100 when pct) if denominator != 0 else 0.0
RatioOrZero(num, den, pct) ==
    IF IsZero(den) THEN IntNum(0)
    ELSE IF pct THEN Mul(Div(num, den), IntNum(100)) ELSE Div(num, den)

get_field_value(row, field_name) ==
    IF field_name \in DOMAIN field_mapping
    THEN safe_float_line_items(RowGet(row, field_mapping[field_name]), IntNum(0))
    ELSE IF field_name \in DOMAIN calculated_fields
    THEN LET ak == calculated_fields[field_name]
             rs == [i \in 1..Len(ak) |->
                       safe_float_line_items(RowGet(row, ak[i]), IntNum(0))]
             a  == rs[1].v
             b  == rs[2].v
             c  == rs[3].v
         IN  IF FirstRaise(rs).o = "raise" THEN FirstRaise(rs)
             ELSE CASE field_name = "working_capital" -> Ret(Sub(a, b))
                    [] field_name = "book_value" -> Ret(Sub(a, b))
                    [] field_name = "debt_to_equity" -> Ret(RatioOrZero(a, b, FALSE))
                    [] field_name = "total_debt" -> Ret(Add(a, b))
                    [] field_name = "net_debt" -> Ret(Sub(Add(a, b), c))
                    [] field_name = "return_on_equity" -> Ret(RatioOrZero(a, b, TRUE))
                    [] field_name = "return_on_assets" -> Ret(RatioOrZero(a, b, TRUE))
                    [] field_name = "asset_turnover" -> Ret(RatioOrZero(a, b, FALSE))
                    [] field_name = "current_ratio" -> Ret(RatioOrZero(a, b, FALSE))
                    [] field_name = "quick_ratio" -> Ret(RatioOrZero(Sub(a, b), c, FALSE))
                    [] field_name = "gross_margin" -> Ret(RatioOrZero(a, b, TRUE))
                    [] field_name = "operating_margin" -> Ret(RatioOrZero(a, b, TRUE))
                    [] field_name = "net_margin" -> Ret(RatioOrZero(a, b, TRUE))
    ELSE safe_float_line_items(RowGet(row, field_name), IntNum(0))

----------------------------------------------------------------------------
(* Ratio harness: one row, one get_field_value call *)

RatioCells == {CNone, CBool(FALSE), CStr(<<>>), CNum(IntNum(0)), CNum(IntNum(100)),
               CNum(IntNum(-3)), CNum(NaN), CStr(<<"2", "wan">>), CStr(<<"x">>), CNA}

\* the columns a calculated field reads
ColumnsOf(name) == {calculated_fields[name][i] : i \in 1..Len(calculated_fields[name])}

\* rows holding exactly the columns of one calculated field; a column the
\* provider omits is one whose cell reads as None
RatioRows == UNION {[ColumnsOf(name) -> RatioCells] : name \in DOMAIN calculated_fields}

FieldNames == DOMAIN calculated_fields \cup {"net_income", "revenue", "col_eps"}

\* the extractor harness at rest
XIdle == xin = CNone /\ xmul = IntNum(1) /\ xfn = "" /\ xout = Ret(None)

InitRatio ==
    /\ qrow \in RatioRows
    /\ qname = ""
    /\ qout = Ret(None)
    /\ XIdle
    /\ MIdle
    /\ VIdle
    /\ BIdle
    /\ RIdle
    /\ SIdle

Call_get_field_value ==
    /\ qname = ""
    /\ \E field_name \in FieldNames :
          /\ qname' = field_name
          /\ qout' = get_field_value(qrow, field_name)
    /\ UNCHANGED <<qrow, xvars, mvars, vvars, bvars, rvars, svars>>

NextRatio == Call_get_field_value

SpecRatio == InitRatio /\ [][NextRatio]_vars

----------------------------------------------------------------------------
(* get_financial_metrics: records *)

\* Python truthiness of a float or None
Truthy(v) == v.k # "none" /\ ~IsZero(v)

\* v / 19405918198 (the share count of line 253); the divisor exceeds the
\* model checker's integers, so a finite quotient stays symbolic
DivShares(v) ==
    IF v.k = "num"
    THEN [k |-> "num", n |-> v.n, d |-> v.d, e |-> v.e, per |-> "19405918198"]
    ELSE v

\* safe_ratio of the aligned path
safe_ratio(numerator, denominator, percentage) ==
    IF numerator.k = "none" \/ denominator.k = "none" \/ IsZero(denominator)
    THEN None
    ELSE IF percentage THEN Mul(Div(numerator, denominator), IntNum(100))
    ELSE Div(numerator, denominator)

\* the numeric fields some path computes; every other field of
\* FinancialMetrics is the constant None on both paths
NumericFields ==
    {"revenue", "net_income", "gross_profit", "operating_income", "ebit",
     "total_assets", "current_assets", "non_current_assets",
     "cash_and_cash_equivalents", "total_debt", "current_liabilities",
     "non_current_liabilities", "shareholders_equity", "return_on_equity",
     "return_on_assets", "operating_margin", "net_margin", "gross_margin",
     "current_ratio", "debt_to_equity", "debt_to_assets", "earnings_per_share",
     "book_value_per_share", "quick_ratio"}

\* the cells safe_extract_value reads for one period, in the order of the
\* reads (lines 158-170 and 252): the table and the column of each
AlignedColumns ==
    <<<<"benefit", "col_star_total_revenue">>,
      <<"benefit", "col_star_net_profit">>,
      <<"benefit", "col_gross_profit">>,
      <<"benefit", "col_3_operating_profit">>,
      <<"debt", "col_star_total_assets">>,
      <<"debt", "col_star_total_liabilities">>,
      <<"debt", "col_star_total_equity">>,
      <<"debt", "col_current_assets">>,
      <<"debt", "col_current_liabilities">>,
      <<"debt", "col_cash_central_bank">>,
      <<"benefit", "col_basic_eps">>>>

\* safe_extract_value of every cell of AlignedColumns
Extracted(benefit_row, debt_row) ==
    [i \in 1..Len(AlignedColumns) |->
        safe_extract_value(
            RowGet(IF AlignedColumns[i][1] = "benefit" THEN benefit_row ELSE debt_row,
                   AlignedColumns[i][2]),
            IntNum(1))]

\* safe_extract_value(v) of lines 207 and 211, applied to a value that was
\* extracted before
Reextracted(rs) ==
    [i \in 1..Len(rs) |->
        IF rs[i].o = "raise" \/ rs[i].v.k = "none" THEN Ret(None)
        ELSE safe_extract_value(CNum(rs[i].v), IntNum(1))]

\* the ratios of lines 181-187 and the fields of the FinancialMetrics
\* constructor (lines 190-256) from the extracted values rs and their second
\* extraction re, or the first exception an extraction raised
AlignedRecord(rs, re) ==
    LET revenue == rs[1].v
        net_income == rs[2].v
        gross_profit == rs[3].v
        operating_income == rs[4].v
        total_assets == rs[5].v
        total_debt == rs[6].v
        shareholders_equity == rs[7].v
        current_assets == rs[8].v
        current_liabilities == rs[9].v
        cash == rs[10].v
    IN  IF FirstRaise(rs).o = "raise" THEN FirstRaise(rs)
        ELSE Ret(
          [revenue |-> revenue,
           net_income |-> net_income,
           gross_profit |-> gross_profit,
           operating_income |-> operating_income,
           ebit |-> operating_income,
           total_assets |-> total_assets,
           current_assets |-> current_assets,
           non_current_assets |->
               IF Truthy(total_assets) /\ Truthy(current_assets)
               THEN Sub(re[5].v, re[8].v) ELSE None,
           cash_and_cash_equivalents |-> cash,
           total_debt |-> total_debt,
           current_liabilities |-> current_liabilities,
           non_current_liabilities |->
               IF Truthy(total_debt) /\ Truthy(current_liabilities)
               THEN Sub(re[6].v, re[9].v) ELSE None,
           shareholders_equity |-> shareholders_equity,
           return_on_equity |-> safe_ratio(net_income, shareholders_equity, TRUE),
           return_on_assets |-> safe_ratio(net_income, total_assets, TRUE),
           operating_margin |-> safe_ratio(operating_income, revenue, TRUE),
           net_margin |-> safe_ratio(net_income, revenue, TRUE),
           gross_margin |->
               IF Truthy(gross_profit) THEN safe_ratio(gross_profit, revenue, TRUE)
               ELSE None,
           current_ratio |-> safe_ratio(current_assets, current_liabilities, FALSE),
           debt_to_equity |-> safe_ratio(total_debt, shareholders_equity, FALSE),
           debt_to_assets |-> safe_ratio(total_debt, total_assets, FALSE),
           earnings_per_share |-> rs[11].v,
           book_value_per_share |->
               IF Truthy(shareholders_equity) THEN DivShares(shareholders_equity)
               ELSE None,
           quick_ratio |-> None])

\* AlignedRecord of the second extraction of rs
WithReextracted(rs) == AlignedRecord(rs, Reextracted(rs))

\* the numeric fields computed for one period of the aligned path from its
\* two rows (lines 157-256), or the exception their computation raises
AlignedFields(benefit_row, debt_row) ==
    WithReextracted(Extracted(benefit_row, debt_row))

----------------------------------------------------------------------------
(* get_financial_metrics: tables, periods and the aligned path *)

\* a table as the provider call yields it: the call raises ("raise"), returns
\* None ("none"), returns a frame without the period column ("nocol"), or
\* returns a frame with rows ("ok", possibly empty)
Table(st, rows) == [st |-> st, rows |-> rows]

\* data is None or data.empty
IsEmptyOrNone(t) == t.st = "none" \/ (t.st \in {"ok", "nocol"} /\ t.rows = <<>>)

\* set(table['period column'].tolist())
PeriodsOf(t) == {t.rows[i].period : i \in 1..Len(t.rows)}

\* sorted(list(periods), reverse=True)
RECURSIVE SortDesc(_)
SortDesc(ps) ==
    IF ps = {} THEN <<>>
    ELSE LET m == CHOOSE p \in ps : \A q \in ps : q <= p
         IN  <<m>> \o SortDesc(ps \ {m})

\* xs[:limit], Python slicing: a negative limit counts from the end
Slice(xs, limit) ==
    IF limit >= 0 THEN SubSeq(xs, 1, Min(limit, Len(xs)))
    ELSE SubSeq(xs, 1, Max(Len(xs) + limit, 0))

\* table[table['period column'] == report_period].iloc[0]: the first match,
\* or IndexError when no row matches
FirstRow(t, report_period) ==
    LET hits == {i \in 1..Len(t.rows) : t.rows[i].period = report_period}
    IN  IF hits = {} THEN Raise("IndexError")
        ELSE Ret(t.rows[CHOOSE i \in hits : \A j \in hits : i <= j])

\* the cells of the two kinds of row a benefit table holds
BenefitRows ==
    <<[col_star_total_revenue |-> CStr(<<"1", ".", "5", "yi">>),
       col_star_net_profit |-> CStr(<<"2", "wan">>),
       col_3_operating_profit |-> CStr(<<"5", "wan">>),
       col_basic_eps |-> CNum(Num(5, 1, -1))],
      [col_star_total_revenue |-> CStr(<<"1", ".", "5", "yi">>),
       col_star_net_profit |-> CNA,
       col_3_operating_profit |-> CBool(FALSE),
       col_basic_eps |-> CStr(<<"nan">>)]>>

\* the cells of the two kinds of row a debt table holds
DebtRows ==
    <<[col_star_total_assets |-> CStr(<<"3", "yi">>),
       col_star_total_liabilities |-> CStr(<<"2", "yi">>),
       col_star_total_equity |-> CStr(<<"1", "yi">>),
       col_current_assets |-> CStr(<<"5", "0", "0", "0", "wan">>),
       col_current_liabilities |-> CStr(<<"4", "0", "0", "0", "wan">>),
       col_cash_central_bank |-> CStr(<<"1", ",", "0", "0", "0">>)],
      [col_star_total_assets |-> CStr(<<"inf">>),
       col_star_total_liabilities |-> CStr(<<"NaN">>),
       col_star_total_equity |-> CNum(IntNum(0)),
       col_current_assets |-> CNum(NaN),
       col_current_liabilities |-> CStr(<<"x">>),
       col_cash_central_bank |-> CStr(<<"1", "2", ".", "5", "%">>)]>>

\* benefit rows read by the scoring functions: a net profit and a revenue
ProfitRow(net_profit, revenue) ==
    [col_star_total_revenue |-> CStr(revenue),
     col_star_net_profit |-> CStr(net_profit)]

\* debt rows read by the scoring functions: total liabilities, and an
\* equity of 100
LeverageRow(liabilities) ==
    [col_star_total_liabilities |-> CStr(liabilities),
     col_star_total_equity |-> CStr(<<"1", "0", "0">>)]

\* every kind of benefit row: BenefitRows, then kinds 3 to 10
BenefitKinds ==
    BenefitRows \o
    <<ProfitRow(<<"1", "8">>, <<"7", "2">>),
      ProfitRow(<<"1", "2">>, <<"1", "0", "0">>),
      ProfitRow(<<"7">>, <<"1", "0", "0">>),
      ProfitRow(<<"3">>, <<"2", "5">>),
      ProfitRow(<<"0">>, <<"1", "0", "0">>),
      ProfitRow(<<"1", "5">>, <<"7", "5">>),
      ProfitRow(<<"1", "0">>, <<"1", "0", "0">>),
      ProfitRow(<<"5">>, <<"1", "0", "0">>)>>

\* every kind of debt row: DebtRows, then kinds 3 to 10
DebtKinds ==
    DebtRows \o
    <<LeverageRow(<<"2", "0">>),
      LeverageRow(<<"3", "0">>),
      LeverageRow(<<"5", "0">>),
      LeverageRow(<<"6", "0">>),
      LeverageRow(<<"9", "0">>),
      LeverageRow(<<"1", "0", "0">>),
      LeverageRow(<<"0">>),
      LeverageRow(<<"-", "1", "0">>)>>

\* AlignedFields of every pair of row kinds
AlignedFieldsOf ==
    [bp \in 1..Len(BenefitKinds), dp \in 1..Len(DebtKinds) |->
        AlignedFields(BenefitKinds[bp], DebtKinds[dp])]

\* FinancialMetrics(report_period=..., ticker=..., period=..., fields...)
BuildRecord(ticker, period, report_period, fields) ==
    IF fields.o = "raise" THEN fields
    ELSE Ret([report_period |-> report_period, ticker |-> ticker,
              period |-> period] @@ fields.v)

\* the record of one period (lines 130-258), or the exception raised
PeriodRecord(ticker, period, report_period, benefit_data, debt_data) ==
    LET benefit_row == FirstRow(benefit_data, report_period)
        debt_row == FirstRow(debt_data, report_period)
    IN  IF benefit_row.o = "raise" THEN benefit_row
        ELSE IF debt_row.o = "raise" THEN debt_row
        ELSE BuildRecord(ticker, period, report_period,
                         AlignedFieldsOf[benefit_row.v.prof, debt_row.v.prof])

\* mutant of AlignedLoop: a period whose construction raises ends the loop
RECURSIVE AlignedLoop_break(_, _, _, _, _)
AlignedLoop_break(ticker, period, sorted_periods, benefit_data, debt_data) ==
    IF sorted_periods = <<>> THEN <<>>
    ELSE LET r == PeriodRecord(ticker, period, Head(sorted_periods),
                               benefit_data, debt_data)
         IN  IF r.o = "raise" THEN <<>>
             ELSE <<r.v>> \o AlignedLoop_break(ticker, period, Tail(sorted_periods),
                                               benefit_data, debt_data)

\* the per-period loop of lines 129-263: one record per period whose
\* construction does not raise, in the order of the periods
RECURSIVE AlignedLoop(_, _, _, _, _)
AlignedLoop(ticker, period, sorted_periods, benefit_data, debt_data) ==
    IF sorted_periods = <<>> THEN <<>>
    ELSE LET r == PeriodRecord(ticker, period, Head(sorted_periods),
                               benefit_data, debt_data)
             rest == AlignedLoop(ticker, period, Tail(sorted_periods),
                                 benefit_data, debt_data)
         IN  IF r.o = "raise" THEN rest ELSE <<r.v>> \o rest

\* lines 101-104: a provider call raises
FetchRaises(benefit_data, debt_data) ==
    benefit_data.st = "raise" \/ debt_data.st = "raise"

\* mutant of EarlyEmpty: the check of the debt table is left out
EarlyEmpty_benefit_only(benefit_data, debt_data) == IsEmptyOrNone(benefit_data)

\* lines 106-112: either table is None or empty
EarlyEmpty(benefit_data, debt_data) ==
    IsEmptyOrNone(benefit_data) \/ IsEmptyOrNone(debt_data)

\* lines 115-116: reading the period column raises (KeyError without the
\* column, TypeError on None)
ColumnRaises(benefit_data, debt_data) ==
    benefit_data.st \in {"nocol", "none"} \/ debt_data.st \in {"nocol", "none"}

\* the benefit table's period column in table order, kept where the debt
\* table has the period
RECURSIVE CommonColumn(_, _)
CommonColumn(rows, debt_periods) ==
    IF rows = <<>> THEN <<>>
    ELSE IF Head(rows).period \in debt_periods
         THEN <<Head(rows).period>> \o CommonColumn(Tail(rows), debt_periods)
    ELSE CommonColumn(Tail(rows), debt_periods)

\* mutant of SortedCommon: the benefit column is filtered without being
\* turned into a set, so a repeated period stays repeated
SortedCommon_no_set(benefit_data, debt_data) ==
    CommonColumn(benefit_data.rows, PeriodsOf(debt_data))

\* lines 115-117 and 127: the common periods, most recent first
SortedCommon(benefit_data, debt_data) ==
    SortDesc(PeriodsOf(benefit_data) \cap PeriodsOf(debt_data))

\* mutant of AlignedPath: a table without the period column ends the call
\* with the empty list
AlignedPath_nocol_empty(ticker, period, limit, benefit_data, debt_data) ==
    IF FetchRaises(benefit_data, debt_data)
    THEN [path |-> "fallback", list |-> <<>>]
    ELSE IF EarlyEmpty(benefit_data, debt_data)
    THEN [path |-> "empty", list |-> <<>>]
    ELSE IF ColumnRaises(benefit_data, debt_data)
    THEN [path |-> "empty", list |-> <<>>]
    ELSE LET common_periods == SortedCommon(benefit_data, debt_data)
             sorted_periods == Slice(common_periods, limit)
         IN  IF common_periods = <<>>
             THEN [path |-> "empty", list |-> <<>>]
             ELSE [path |-> "aligned",
                   list |-> AlignedLoop(ticker, period, sorted_periods,
                                        benefit_data, debt_data)]

\* lines 96-276 up to the choice of path: "fallback" when the try block
\* raises outside the loop, "empty" for the three early returns, else
\* "aligned" with the list the loop built
AlignedPath(ticker, period, limit, benefit_data, debt_data) ==
    IF FetchRaises(benefit_data, debt_data)
    THEN [path |-> "fallback", list |-> <<>>]
    ELSE IF EarlyEmpty(benefit_data, debt_data)
    THEN [path |-> "empty", list |-> <<>>]
    ELSE IF ColumnRaises(benefit_data, debt_data)
    THEN [path |-> "fallback", list |-> <<>>]
    ELSE LET common_periods == SortedCommon(benefit_data, debt_data)
             sorted_periods == Slice(common_periods, limit)
         IN  IF common_periods = <<>>
             THEN [path |-> "empty", list |-> <<>>]
             ELSE [path |-> "aligned",
                   list |-> AlignedLoop(ticker, period, sorted_periods,
                                        benefit_data, debt_data)]

----------------------------------------------------------------------------
(* get_financial_metrics_fallback *)

\* pd.to_datetime(label).strftime("%Y-%m-%d"): a date label of either
\* spelling gives its canonical date, anything else raises
ToDate(label) ==
    IF label.t = "date" THEN Ret(label.p) ELSE Raise("ValueError")

\* str(row.get(period column, '')) is empty or 'False'
NoReportDate(cell) == cell \in {CStr(<<>>), CBool(FALSE), CStr(<<"False">>)}

\* the canonical date an end_date argument denotes
EndDateValue(end_date) == IF end_date = "2024-12-31" THEN Ret(MaxPeriod + 1)
                          ELSE Raise("ValueError")

\* mutant of FallbackDate: a row without a report date is given up
FallbackDate_drops_missing(end_date, row) ==
    LET cell == IF "col_report_period" \in DOMAIN row
                THEN row["col_report_period"] ELSE CStr(<<>>)
    IN  IF NoReportDate(cell) THEN Raise("ValueError") ELSE ToDate(cell)

\* the report date of one row of the fallback (lines 302-307 and 327), or
\* the exception its parsing raises
FallbackDate(end_date, row) ==
    LET cell == IF "col_report_period" \in DOMAIN row
                THEN row["col_report_period"] ELSE CStr(<<>>)
    IN  IF NoReportDate(cell) THEN EndDateValue(end_date) ELSE ToDate(cell)

\* the columns safe_float reads for one row, in the order of the
\* constructor's arguments (lines 332-378)
FallbackColumns ==
    <<"col_total_revenue", "col_net_profit", "col_total_assets",
      "col_total_liabilities", "col_equity", "col_equity_ratio",
      "col_current_ratio", "col_quick_ratio", "col_gross_margin",
      "col_operating_margin", "col_roe", "col_roa">>

\* the fields of the fallback's FinancialMetrics constructor from the values
\* rs safe_float gave, or the first exception it raised
FallbackRecord(rs) ==
    IF FirstRaise(rs).o = "raise" THEN FirstRaise(rs)
    ELSE Ret(
          [revenue |-> rs[1].v,
           net_income |-> rs[2].v,
           gross_profit |-> None,
           operating_income |-> None,
           ebit |-> None,
           total_assets |-> rs[3].v,
           current_assets |-> None,
           non_current_assets |-> None,
           cash_and_cash_equivalents |-> None,
           total_debt |-> rs[4].v,
           current_liabilities |-> None,
           non_current_liabilities |-> None,
           shareholders_equity |-> rs[5].v,
           return_on_equity |-> rs[11].v,
           return_on_assets |-> rs[12].v,
           operating_margin |-> rs[10].v,
           net_margin |-> None,
           gross_margin |-> rs[9].v,
           current_ratio |-> rs[7].v,
           debt_to_equity |-> rs[6].v,
           debt_to_assets |-> None,
           earnings_per_share |-> None,
           book_value_per_share |-> None,
           quick_ratio |-> rs[8].v])

\* the numeric fields of one row of the fallback (lines 326-380), or the
\* exception their computation raises
FallbackFields(row) ==
    FallbackRecord([i \in 1..Len(FallbackColumns) |->
                       safe_float_fallback(RowGet(row, FallbackColumns[i]), None)])

\* a date label: spelled canonically or not, it denotes date p
DateLabel(p, canonical) == [t |-> "date", p |-> p, canonical |-> canonical]

\* the kinds of row the consolidated table holds
AbstractRows ==
    <<[col_report_period |-> DateLabel(2, TRUE),
       col_total_revenue |-> CStr(<<"1", ".", "5", "yi">>),
       col_net_profit |-> CStr(<<"2", "wan">>),
       col_roe |-> CStr(<<"1", "2", ".", "5", "%">>),
       col_current_ratio |-> CNum(IntNum(0))],
      [col_report_period |-> DateLabel(1, FALSE),
       col_total_revenue |-> CStr(<<"nan">>),
       col_net_profit |-> CStr(<<"1", ",", "0", "0", "0">>),
       col_roe |-> CNum(NaN)],
      [col_report_period |-> CBool(FALSE),
       col_total_revenue |-> CStr(<<"5", "wan">>)],
      [col_total_revenue |-> CNA],
      [col_report_period |-> CStr(<<"x">>)],
      [col_total_revenue |-> CStr(<<"3", "wan">>),
       col_roe |-> CNum(IntNum(8))]>>

EndDates == {"2024-12-31"}

\* FallbackDate of every end date and kind of row
FallbackDateOf ==
    [end_date \in EndDates, i \in 1..Len(AbstractRows) |->
        FallbackDate(end_date, AbstractRows[i])]

\* FallbackFields of every kind of row
FallbackFieldsOf == [i \in 1..Len(AbstractRows) |-> FallbackFields(AbstractRows[i])]

\* the row loop of lines 299-386
RECURSIVE FallbackLoop(_, _, _, _)
FallbackLoop(ticker, end_date, period, rows) ==
    IF rows = <<>> THEN <<>>
    ELSE LET date == FallbackDateOf[end_date, Head(rows)]
             r == IF date.o = "raise" THEN date
                  ELSE BuildRecord(ticker, period, date.v,
                                   FallbackFieldsOf[Head(rows)])
             rest == FallbackLoop(ticker, end_date, period, Tail(rows))
         IN  IF r.o = "raise" THEN rest ELSE <<r.v>> \o rest

get_financial_metrics_fallback(ticker, end_date, period, limit, financial_data) ==
    IF financial_data.st = "raise" THEN <<>>
    ELSE IF IsEmptyOrNone(financial_data) THEN <<>>
    ELSE FallbackLoop(ticker, end_date, period, Slice(financial_data.rows, limit))

\* what the consolidated-table call can yield
AbstractTables ==
    {Table("raise", <<>>), Table("none", <<>>), Table("ok", <<>>),
     Table("ok", <<1, 2>>), Table("ok", <<3, 1, 4>>), Table("ok", <<5, 2, 3>>),
     Table("ok", <<6, 2, 6>>)}

\* the consolidated table before the first fetch reveals it
Unfetched == Table("unfetched", <<>>)

----------------------------------------------------------------------------
(* get_financial_metrics: cache and the call *)

\* str(limit)
RECURSIVE NatStr(_)
NatStr(n) ==
    LET d == <<"0", "1", "2", "3", "4", "5", "6", "7", "8", "9">>
    IN  IF n < 10 THEN <<d[n + 1]>> ELSE NatStr(n \div 10) \o <<d[(n % 10) + 1]>>

IntStr(i) == IF i < 0 THEN <<"-">> \o NatStr(-i) ELSE NatStr(i)

\* f"akshare_financial_new_{ticker}_{period}_{end_date}_{limit}"
CacheKey(ticker, period, end_date, limit) ==
    <<"akshare_financial_new", "_">> \o ticker \o <<"_">> \o period
        \o <<"_", end_date, "_">> \o IntStr(limit)

\* _cache.get_financial_metrics(key): the stored list, or None (here the
\* empty list, which the caller's truth test treats alike)
CacheGet(c, key) == IF key \in DOMAIN c THEN c[key] ELSE <<>>

\* _cache.set_financial_metrics(key, data): the entry is replaced
CacheSet(c, key, data) ==
    [k \in DOMAIN c \cup {key} |-> IF k = key THEN data ELSE c[k]]

\* mutant of ToCache: only the first record is stored
ToCache_first_only(financial_metrics) ==
    SubSeq(financial_metrics, 1, Min(1, Len(financial_metrics)))

\* mutant of ToCache: the last record is not stored
ToCache_drop_last(financial_metrics) ==
    SubSeq(financial_metrics, 1, Len(financial_metrics) - 1)

\* [m.model_dump() for m in financial_metrics] (line 267): every record is
\* stored, in order, as the dict of its fields
ToCache(financial_metrics) ==
    [i \in 1..Len(financial_metrics) |->
        [f \in DOMAIN financial_metrics[i] |-> financial_metrics[i][f]]]

\* mutant of FromCache: the last stored record is not rebuilt
FromCache_drop_last(cached_data) ==
    SubSeq(cached_data, 1, Len(cached_data) - 1)

\* [FinancialMetrics(**metric) for metric in cached_data] (line 94): every
\* stored dict is rebuilt, in order, into a record of the same fields
FromCache(cached_data) ==
    [i \in 1..Len(cached_data) |->
        [f \in DOMAIN cached_data[i] |-> cached_data[i][f]]]

Tickers == {<<"0", "0", "0", "0", "0", "1">>}

PeriodArgs == {<<"ttm">>}

Limits == (-1)..MaxLimit

\* rows of a statement table: a period and the kind of row
StatementRows == [period : 1..MaxPeriod, prof : 1..2]

\* frames whose rows are listed most recent first, repeated periods allowed
Frames ==
    {rows \in UNION {[1..n -> StatementRows] : n \in 0..MaxRows} :
        \A i \in 1..(Len(rows) - 1) : rows[i].period >= rows[i + 1].period}

\* frames that list each period once
StrictFrames ==
    {rows \in Frames :
        \A i \in 1..(Len(rows) - 1) : rows[i].period > rows[i + 1].period}

\* what a statement-table call can yield, given the frames it may return
StatementTables(frames) ==
    {Table("raise", <<>>), Table("none", <<>>)}
    \cup {Table("ok", rows) : rows \in frames}
    \cup {Table("nocol", <<[period |-> 0, prof |-> 1]>>)}

NoCall == [path |-> "none"]

Init ==
    /\ benefit \in StatementTables(Frames)
    /\ debt \in StatementTables(StrictFrames)
    /\ abstract = Unfetched
    /\ cache = << >>
    /\ ncalls = 0
    /\ call = NoCall
    /\ XIdle
    /\ QIdle
    /\ VIdle
    /\ BIdle
    /\ RIdle
    /\ SIdle

\* one call of get_financial_metrics, lines 82-276
GetFinancialMetrics(ticker, end_date, period, limit) ==
    LET cache_key == CacheKey(ticker, period, end_date, limit)
        cached_data == CacheGet(cache, cache_key)
        a == AlignedPath(ticker, period, limit, benefit, debt)
        args == [ticker |-> ticker, end_date |-> end_date,
                 period |-> period, limit |-> limit]
    IN  /\ ncalls' = ncalls + 1
        /\ IF cached_data # <<>>
           THEN /\ call' = [path |-> "cache", args |-> args,
                            ret |-> FromCache(cached_data),
                            wrote |-> FALSE, raised |-> FALSE]
                /\ UNCHANGED <<cache, abstract>>
           ELSE IF a.path = "fallback"
           THEN /\ \E t \in (IF abstract = Unfetched THEN AbstractTables
                             ELSE {abstract}) :
                      /\ abstract' = t
                      /\ call' = [path |-> "fallback", args |-> args,
                                  ret |-> get_financial_metrics_fallback(
                                              ticker, end_date, period, limit, t),
                                  wrote |-> FALSE, raised |-> FALSE]
                /\ UNCHANGED cache
           ELSE /\ call' = [path |-> a.path, args |-> args, ret |-> a.list,
                            wrote |-> a.list # <<>>, raised |-> FALSE]
                /\ cache' = IF a.list # <<>>
                            THEN CacheSet(cache, cache_key, ToCache(a.list))
                            ELSE cache
                /\ UNCHANGED abstract
        /\ UNCHANGED <<benefit, debt, xvars, qvars>>

\* a caller asks for metrics, at most MaxCalls times in a behaviour
Call_get_financial_metrics ==
    /\ ncalls < MaxCalls
    /\ \E ticker \in Tickers, end_date \in EndDates, period \in PeriodArgs,
          limit \in Limits :
           GetFinancialMetrics(ticker, end_date, period, limit)
    /\ UNCHANGED <<vvars, bvars, rvars, svars>>

Next == Call_get_financial_metrics

Spec == Init /\ [][Next]_vars

MaxRepeat == 2       \* calls in a behaviour that repeats its call

\* the first call of a caller that will repeat it
FirstCall ==
    /\ ncalls = 0
    /\ \E ticker \in Tickers, end_date \in EndDates, period \in PeriodArgs,
          limit \in Limits :
           GetFinancialMetrics(ticker, end_date, period, limit)
    /\ UNCHANGED <<vvars, bvars, rvars, svars>>

\* the caller calls again with the arguments of its latest call
RepeatCall ==
    /\ 0 < ncalls
    /\ ncalls < MaxRepeat
    /\ GetFinancialMetrics(call.args.ticker, call.args.end_date,
                           call.args.period, call.args.limit)
    /\ UNCHANGED <<vvars, bvars, rvars, svars>>

NextRepeat == FirstCall \/ RepeatCall

SpecRepeat == Init /\ [][NextRepeat]_vars

MaxCacheCalls == 3   \* calls in a behaviour of callers sharing the cache

\* ticker arguments: any str is accepted (line 83)
CacheTickers == {<<"6">>, <<"6", "_", "q">>}

\* period arguments: any str is accepted (line 85)
CachePeriodArgs == {<<"ttm">>, <<"q", "_", "ttm">>}

CacheLimits == {1, 2}

\* the frames the providers return to the callers sharing the cache
CacheFrames ==
    {<< >>,
     <<[period |-> 2, prof |-> 1]>>,
     <<[period |-> 1, prof |-> 1]>>,
     <<[period |-> 2, prof |-> 1], [period |-> 1, prof |-> 1]>>,
     <<[period |-> 2, prof |-> 2], [period |-> 1, prof |-> 1]>>,
     <<[period |-> 2, prof |-> 1], [period |-> 1, prof |-> 2]>>}

InitCache ==
    /\ benefit \in StatementTables(CacheFrames)
    /\ debt \in StatementTables(CacheFrames)
    /\ abstract = Unfetched
    /\ cache = << >>
    /\ ncalls = 0
    /\ call = NoCall
    /\ XIdle
    /\ QIdle
    /\ VIdle
    /\ BIdle
    /\ RIdle
    /\ SIdle

\* one of several callers asks for metrics; the calls run one after another
CallWithCache ==
    /\ ncalls < MaxCacheCalls
    /\ \E ticker \in CacheTickers, end_date \in EndDates,
          period \in CachePeriodArgs, limit \in CacheLimits :
           GetFinancialMetrics(ticker, end_date, period, limit)
    /\ UNCHANGED <<vvars, bvars, rvars, svars>>

NextCache == CallWithCache

SpecCache == InitCache /\ [][NextCache]_vars

----------------------------------------------------------------------------
(* The valuation scorer: analyze_pe_ratio, analyze_pb_ratio,
   get_valuation_score and get_valuation_metrics *)

\* float < float
Less(a, b) ==
    IF a.k = "nan" \/ b.k = "nan" THEN FALSE
    ELSE IF a.k = "inf" THEN a.s < 0 /\ ~(b.k = "inf" /\ b.s < 0)
    ELSE IF b.k = "inf" THEN b.s > 0
    ELSE Sign(Sub(a, b)) < 0

\* float <= float
LessEq(a, b) ==
    IF a.k = "nan" \/ b.k = "nan" THEN FALSE ELSE ~Less(b, a)

\* the 'assessment' of analyze_pe_ratio (lines 1609-1625)
analyze_pe_ratio(pe_ratio) ==
    IF pe_ratio = None THEN "unknown"
    ELSE IF LessEq(pe_ratio, IntNum(0)) THEN "negative_earnings"
    ELSE IF Less(pe_ratio, IntNum(10)) THEN "very_attractive"
    ELSE IF Less(pe_ratio, IntNum(15)) THEN "attractive"
    ELSE IF Less(pe_ratio, IntNum(20)) THEN "fair"
    ELSE IF Less(pe_ratio, IntNum(30)) THEN "expensive"
    ELSE "very_expensive"

\* the 'assessment' of analyze_pb_ratio (lines 1628-1644)
analyze_pb_ratio(pb_ratio) ==
    IF pb_ratio = None THEN "unknown"
    ELSE IF LessEq(pb_ratio, IntNum(0)) THEN "negative_book_value"
    ELSE IF Less(pb_ratio, IntNum(1)) THEN "very_attractive"
    ELSE IF Less(pb_ratio, Num(15, 1, -1)) THEN "attractive"
    ELSE IF Less(pb_ratio, Num(25, 1, -1)) THEN "fair"
    ELSE IF Less(pb_ratio, IntNum(4)) THEN "expensive"
    ELSE "very_expensive"

\* mutant of get_valuation_score: the PE band below 15 takes 15 itself
get_valuation_score_le15(ratio, ratio_type) ==
    IF ratio = None THEN 50
    ELSE IF ratio_type = "pe"
    THEN IF LessEq(ratio, IntNum(0)) THEN 0
         ELSE IF Less(ratio, IntNum(10)) THEN 95
         ELSE IF LessEq(ratio, IntNum(15)) THEN 85
         ELSE IF Less(ratio, IntNum(20)) THEN 70
         ELSE IF Less(ratio, IntNum(30)) THEN 40
         ELSE 10
    ELSE IF ratio_type = "pb"
    THEN IF LessEq(ratio, IntNum(0)) THEN 0
         ELSE IF Less(ratio, IntNum(1)) THEN 95
         ELSE IF Less(ratio, Num(15, 1, -1)) THEN 85
         ELSE IF Less(ratio, Num(25, 1, -1)) THEN 70
         ELSE IF Less(ratio, IntNum(4)) THEN 40
         ELSE 10
    ELSE 50

\* get_valuation_score (lines 1647-1680)
get_valuation_score(ratio, ratio_type) ==
    IF ratio = None THEN 50
    ELSE IF ratio_type = "pe"
    THEN IF LessEq(ratio, IntNum(0)) THEN 0
         ELSE IF Less(ratio, IntNum(10)) THEN 95
         ELSE IF Less(ratio, IntNum(15)) THEN 85
         ELSE IF Less(ratio, IntNum(20)) THEN 70
         ELSE IF Less(ratio, IntNum(30)) THEN 40
         ELSE 10
    ELSE IF ratio_type = "pb"
    THEN IF LessEq(ratio, IntNum(0)) THEN 0
         ELSE IF Less(ratio, IntNum(1)) THEN 95
         ELSE IF Less(ratio, Num(15, 1, -1)) THEN 85
         ELSE IF Less(ratio, Num(25, 1, -1)) THEN 70
         ELSE IF Less(ratio, IntNum(4)) THEN 40
         ELSE 10
    ELSE 50

\* a row the individual-info table does not hold
Absent == [t |-> "absent"]

\* float(value) if value not in ['False', '', '-'] else None, inside
\* try ... except ValueError: pass (lines 1459-1495): what each item of the
\* individual-info table leaves behind, None when nothing is stored
InfoValues(info) ==
    [f \in {"pe", "pb", "eps", "bvps"} |->
        IF info.st # "ok" \/ info.cells[f] = Absent THEN None
        ELSE IF info.cells[f].s \in {<<"False">>, <<>>, <<"-">>} THEN None
        ELSE Caught(ParseFloat(info.cells[f].s), None).v]

\* lines 1513-1528: a ratio already set is kept; a spot cell that is None
\* or '-' or does not parse is skipped; any other failure leaves the block
SpotRatio(old, cell, converted) ==
    IF Truthy(old) THEN Ret(old)
    ELSE IF cell = CNone THEN Ret(old)
    ELSE IF cell = CNA THEN Raise("TypeError")
    ELSE IF cell = CStr(<<"-">>) THEN Ret(old)
    ELSE IF converted.o = "raise" /\ converted.exc = "ValueError" THEN Ret(old)
    ELSE converted

\* step 4 (lines 1501-1537): price and ratios taken from the spot table
\* where still unset; the first exception ends the step, keeping what was
\* assigned before it
FromSpot(d, spot) ==
    IF spot.st # "ok" THEN d
    ELSE LET fl == [c \in {"price", "pe", "pb"} |-> ToFloat(spot.row[c])]
             price == IF Truthy(d.price) THEN Ret(d.price) ELSE fl["price"]
             pe == SpotRatio(d.pe, spot.row["pe"], fl["pe"])
             pb == SpotRatio(d.pb, spot.row["pb"], fl["pb"])
         IN  IF price.o = "raise" THEN d
             ELSE IF pe.o = "raise" THEN [d EXCEPT !.price = price.v]
             ELSE IF pb.o = "raise"
                  THEN [d EXCEPT !.price = price.v, !.pe = pe.v]
             ELSE [d EXCEPT !.price = price.v, !.pe = pe.v, !.pb = pb.v]

\* step 5 (lines 1548-1564): price / per-share value where the per-share
\* value is positive and the ratio is still unset
Derived(d) ==
    [d EXCEPT
        !.pe = IF Truthy(d.price) /\ Truthy(d.eps) /\ Less(IntNum(0), d.eps)
                  /\ ~Truthy(d.pe)
               THEN Div(d.price, d.eps) ELSE d.pe,
        !.pb = IF Truthy(d.price) /\ Truthy(d.bvps) /\ Less(IntNum(0), d.bvps)
                  /\ ~Truthy(d.pb)
               THEN Div(d.price, d.bvps) ELSE d.pb]

\* lines 1587-1599: the verdict from the average of the two scores
OverallValuation(pe_ratio, pb_ratio) ==
    IF Truthy(pe_ratio) /\ Truthy(pb_ratio)
    THEN LET pe_score == get_valuation_score(pe_ratio, "pe")
             pb_score == get_valuation_score(pb_ratio, "pb")
             avg_score == Div(IntNum(pe_score + pb_score), IntNum(2))
         IN  IF LessEq(IntNum(80), avg_score) THEN "attractive"
             ELSE IF LessEq(IntNum(60), avg_score) THEN "fair"
             ELSE IF LessEq(IntNum(40), avg_score) THEN "expensive"
             ELSE "overvalued"
    ELSE "undetermined"

\* get_valuation_metrics (lines 1408-1606) as far as the price, the PE and
\* PB ratios and their assessment go; data is what the provider holds
get_valuation_metrics(data) ==
    LET info == InfoValues(data.info)
        d == Derived(FromSpot([price |-> data.quote, pe |-> info["pe"],
                               pb |-> info["pb"], eps |-> info["eps"],
                               bvps |-> info["bvps"]],
                              data.spot))
    IN  [current_price |-> d.price,
         pe_ratio |-> d.pe,
         pb_ratio |-> d.pb,
         pe_assessment |-> analyze_pe_ratio(d.pe),
         pb_assessment |-> analyze_pb_ratio(d.pb),
         overall_valuation |-> OverallValuation(d.pe, d.pb)]

\* the price of the first real-time quote, None without a quote
Quotes == {None, IntNum(0), IntNum(30)}

\* the value cells of the individual-info table, item by item
InfoCells ==
    [pe : {Absent, CStr(<<"-">>), CStr(<<"0">>), CStr(<<"8">>),
           CStr(<<"1", "2">>), CStr(<<"-", "3">>), CStr(<<"3", "5">>),
           CStr(<<"x">>), CStr(<<"nan">>)},
     pb : {Absent, CStr(<<"False">>), CStr(<<"0">>), CStr(<<"0", ".", "5">>),
           CStr(<<"1", ".", "2">>), CStr(<<"2">>), CStr(<<"3">>),
           CStr(<<"5">>), CStr(<<"-", "1">>)},
     eps : {Absent, CStr(<<"2">>), CStr(<<"-", "1">>)},
     bvps : {Absent, CStr(<<"2", "0">>)}]

\* the individual-info call raises, or returns a table with these cells
InfoTables ==
    {[st |-> "raise", cells |-> << >>]}
    \cup {[st |-> "ok", cells |-> c] : c \in InfoCells}

\* the subject's row of the spot table
SpotRows ==
    [price : {CNum(IntNum(30)), CStr(<<"-">>)},
     pe : {CNone, CNum(IntNum(17)), CNum(IntNum(0)), CNA},
     pb : {CNone, CNum(IntNum(3))}]

\* the spot call raises or holds no row of the subject, or holds one
SpotTables ==
    {[st |-> "raise", row |-> << >>], [st |-> "norow", row |-> << >>]}
    \cup {[st |-> "ok", row |-> r] : r \in SpotRows}

ValuationData == [quote : Quotes, info : InfoTables, spot : SpotTables]

MaxTenths == 400     \* ratios handed to the assessors: -30.0 .. 40.0 in tenths

\* the ratios handed to the assessors
Ratios ==
    {None, NaN, Inf(1), Inf(-1)}
    \cup {Num(t, 1, -1) : t \in (-300)..MaxTenths}
    \cup {Num(t, 1, -2) : t \in {-1, 1, 99, 101, 149, 151, 249, 251, 399, 401}}

InitValuation ==
    /\ \/ vdata \in ValuationData /\ vratio = None
       \/ vdata = << >> /\ vratio \in Ratios
    /\ vfn = ""
    /\ vout = << >>
    /\ XIdle
    /\ QIdle
    /\ MIdle
    /\ BIdle
    /\ RIdle
    /\ SIdle

\* the caller asks for the PE assessment and the PE score of one ratio
Call_assess_pe ==
    /\ vfn = ""
    /\ vdata = << >>
    /\ vfn' = "pe"
    /\ vout' = [assessment |-> analyze_pe_ratio(vratio),
                score |-> get_valuation_score(vratio, "pe")]
    /\ UNCHANGED <<vdata, vratio, xvars, qvars, mvars, bvars, rvars, svars>>

\* the caller asks for the PB assessment and the PB score of one ratio
Call_assess_pb ==
    /\ vfn = ""
    /\ vdata = << >>
    /\ vfn' = "pb"
    /\ vout' = [assessment |-> analyze_pb_ratio(vratio),
                score |-> get_valuation_score(vratio, "pb")]
    /\ UNCHANGED <<vdata, vratio, xvars, qvars, mvars, bvars, rvars, svars>>

Call_get_valuation_metrics ==
    /\ vfn = ""
    /\ vdata # << >>
    /\ vfn' = "get_valuation_metrics"
    /\ vout' = get_valuation_metrics(vdata)
    /\ UNCHANGED <<vdata, vratio, xvars, qvars, mvars, bvars, rvars, svars>>

NextValuation ==
    \/ Call_assess_pe
    \/ Call_assess_pb
    \/ Call_get_valuation_metrics

SpecValuation == InitValuation /\ [][NextValuation]_vars

----------------------------------------------------------------------------
(* get_warren_buffett_analysis and get_enhanced_warren_buffett_analysis *)

\* mutant of RoeScore: the top band gives 12 points
RoeScore_top_12(return_on_equity) ==
    IF ~Truthy(return_on_equity) THEN 0
    ELSE IF Less(IntNum(15), return_on_equity) THEN 12
    ELSE IF Less(IntNum(10), return_on_equity) THEN 7
    ELSE IF Less(IntNum(5), return_on_equity) THEN 4
    ELSE 0

\* lines 1088-1094: the return-on-equity points
RoeScore(return_on_equity) ==
    IF ~Truthy(return_on_equity) THEN 0
    ELSE IF Less(IntNum(15), return_on_equity) THEN 10
    ELSE IF Less(IntNum(10), return_on_equity) THEN 7
    ELSE IF Less(IntNum(5), return_on_equity) THEN 4
    ELSE 0

\* lines 1097-1103: the debt-to-equity points
DebtScore(debt_to_equity) ==
    IF ~Truthy(debt_to_equity) THEN 0
    ELSE IF Less(debt_to_equity, Num(3, 1, -1)) THEN 8
    ELSE IF Less(debt_to_equity, Num(6, 1, -1)) THEN 5
    ELSE IF Less(debt_to_equity, IntNum(1)) THEN 2
    ELSE 0

\* lines 1106-1112: the net-margin points
MarginScore(net_margin) ==
    IF ~Truthy(net_margin) THEN 0
    ELSE IF Less(IntNum(20), net_margin) THEN 7
    ELSE IF Less(IntNum(10), net_margin) THEN 4
    ELSE IF Less(IntNum(5), net_margin) THEN 2
    ELSE 0

\* lines 1084-1112: financial_strength from the latest record, 0 without one
FinancialStrength(financial_metrics) ==
    IF financial_metrics = <<>> THEN 0
    ELSE RoeScore(financial_metrics[1].return_on_equity)
         + DebtScore(financial_metrics[1].debt_to_equity)
         + MarginScore(financial_metrics[1].net_margin)

\* mutant of IndustryScores: a brewer's competitive advantage is 21
IndustryScores_liquor_21(tag) ==
    IF Contains(tag, "yinhang")
    THEN [business_understandability |-> 15, competitive_advantage |-> 12]
    ELSE IF Contains(tag, "niangjiu")
    THEN [business_understandability |-> 18, competitive_advantage |-> 21]
    ELSE [business_understandability |-> 0, competitive_advantage |-> 0]

\* lines 1115-1121: the two components set from the industry tag; the
\* words for bank and brewer are written as the tokens "yinhang" and
\* "niangjiu"
IndustryScores(tag) ==
    IF Contains(tag, "yinhang")
    THEN [business_understandability |-> 15, competitive_advantage |-> 12]
    ELSE IF Contains(tag, "niangjiu")
    THEN [business_understandability |-> 18, competitive_advantage |-> 20]
    ELSE [business_understandability |-> 0, competitive_advantage |-> 0]

\* 'A' if total_score >= 80 else 'B' if total_score >= 60 else 'C' if
\* total_score >= 40 else 'D' (lines 1128 and 1374-1379)
Grade(total_score) ==
    IF total_score >= 80 THEN "A"
    ELSE IF total_score >= 60 THEN "B"
    ELSE IF total_score >= 40 THEN "C"
    ELSE "D"

\* sum(score_components.values())
SumOf(score_components) ==
    score_components.business_understandability
    + score_components.competitive_advantage
    + score_components.financial_strength
    + score_components.management_quality
    + score_components.valuation_attractiveness

\* lines 1124-1129 and 1371-1379: the score with its total and its grade
Scored(score_components) ==
    [components |-> score_components,
     total_score |-> SumOf(score_components),
     max_score |-> 100,
     grade |-> Grade(SumOf(score_components))]

\* lines 1076-1129: warren_buffett_score of get_warren_buffett_analysis
WarrenBuffettScore(financial_metrics, tag) ==
    Scored([business_understandability |->
                IndustryScores(tag).business_understandability,
            competitive_advantage |-> IndustryScores(tag).competitive_advantage,
            financial_strength |-> FinancialStrength(financial_metrics),
            management_quality |-> 0,
            valuation_attractiveness |-> 0])

\* mutant of TargetIndex: without the subject the first peer is taken
TargetIndex_first_peer(peer_stocks, ticker) ==
    LET hits == {i \in 1..Len(peer_stocks) : peer_stocks[i].ticker = ticker}
    IN  IF hits = {} THEN 1 ELSE CHOOSE i \in hits : \A j \in hits : i <= j

\* lines 1349-1353: the first peer that is the subject, 0 if there is none
TargetIndex(peer_stocks, ticker) ==
    LET hits == {i \in 1..Len(peer_stocks) : peer_stocks[i].ticker = ticker}
    IN  IF hits = {} THEN 0 ELSE CHOOSE i \in hits : \A j \in hits : i <= j

\* mutant of PeerBonus: a peer level with the subject counts as beaten
PeerBonus_counts_ties(peer_stocks, ticker) ==
    LET target == TargetIndex(peer_stocks, ticker)
        change_pcts == {i \in 1..Len(peer_stocks) :
                           ~IsZero(peer_stocks[i].change_pct)}
        better_count ==
            Cardinality({i \in change_pcts :
                            LessEq(peer_stocks[i].change_pct,
                                   peer_stocks[target].change_pct)})
        relative_performance ==
            Div(IntNum(better_count), IntNum(Cardinality(change_pcts)))
    IN  IF target = 0 \/ change_pcts = {} THEN 0
        ELSE IF Less(Num(8, 1, -1), relative_performance) THEN 5
        ELSE IF Less(Num(6, 1, -1), relative_performance) THEN 3
        ELSE IF Less(Num(4, 1, -1), relative_performance) THEN 1
        ELSE 0

\* lines 1355-1369: the points added to competitive_advantage
PeerBonus(peer_stocks, ticker) ==
    LET target == TargetIndex(peer_stocks, ticker)
        change_pcts == {i \in 1..Len(peer_stocks) :
                           ~IsZero(peer_stocks[i].change_pct)}
        better_count ==
            Cardinality({i \in change_pcts :
                            Less(peer_stocks[i].change_pct,
                                 peer_stocks[target].change_pct)})
        relative_performance ==
            Div(IntNum(better_count), IntNum(Cardinality(change_pcts)))
    IN  IF target = 0 \/ change_pcts = {} THEN 0
        ELSE IF Less(Num(8, 1, -1), relative_performance) THEN 5
        ELSE IF Less(Num(6, 1, -1), relative_performance) THEN 3
        ELSE IF Less(Num(4, 1, -1), relative_performance) THEN 1
        ELSE 0

\* mutant of PeerAdjusted: total and grade are not computed again
PeerAdjusted_stale_total(score, bonus) ==
    [score EXCEPT !.components.competitive_advantage = @ + bonus]

\* lines 1363-1379: the bonus is added and total and grade computed again
PeerAdjusted(score, bonus) ==
    Scored([score.components EXCEPT !.competitive_advantage = @ + bonus])

\* lines 1342-1379: the score after the peer comparison; it is left alone
\* when the peer analysis holds no peer list or an empty one
EnhancedScore(score, peer_analysis, ticker) ==
    IF peer_analysis.st = "ok" /\ peer_analysis.peer_stocks # <<>>
    THEN PeerAdjusted(score, PeerBonus(peer_analysis.peer_stocks, ticker))
    ELSE score

MaxPeers == 3        \* most entries in a peer list

\* the ticker the analyses are asked for
Subject == <<"0", "0", "0", "0", "0", "1">>

\* another ticker of the industry
OtherTicker == <<"6", "0", "0", "0", "3", "6">>

\* datetime.datetime.now().strftime("%Y-%m-%d") (line 1071)
Today == "2024-12-31"

\* the entries of peer_stocks as far as the scoring reads them
PeerEntries ==
    [ticker : {Subject, OtherTicker},
     change_pct : {IntNum(-1), IntNum(0), IntNum(2)}]

\* peer lists: the industry board lists a ticker once, so the subject
\* appears at most once
PeerLists ==
    {l \in UNION {[1..n -> PeerEntries] : n \in 0..MaxPeers} :
        Cardinality({i \in 1..Len(l) : l[i].ticker = Subject}) <= 1}

\* what get_industry_peers returns: an error dict, or a dict with peer_stocks
PeerAnalyses ==
    {[st |-> "error", peer_stocks |-> <<>>]}
    \cup {[st |-> "ok", peer_stocks |-> l] : l \in PeerLists}

\* the industry tags: a bank, a brewer, anything else
Industries == {<<"yinhang">>, <<"niangjiu">>, <<"qita">>}

\* the benefit tables the analyses are run on: the call raises, or returns
\* no row, or one row of any kind but the first
ScoredBenefitTables ==
    {Table("raise", <<>>), Table("ok", <<>>)}
    \cup {Table("ok", <<[period |-> 1, prof |-> k]>>) : k \in 2..Len(BenefitKinds)}

\* the debt tables the analyses are run on: one row of a leverage kind
ScoredDebtTables ==
    {Table("ok", <<[period |-> 1, prof |-> k]>>) : k \in 3..Len(DebtKinds)}

InitBuffett ==
    /\ benefit \in ScoredBenefitTables
    /\ debt \in ScoredDebtTables
    /\ abstract = Unfetched
    /\ cache = << >>
    /\ ncalls = 0
    /\ call = NoCall
    /\ industry \in Industries
    /\ peers \in PeerAnalyses
    /\ analysis = [kind |-> "none"]
    /\ XIdle
    /\ QIdle
    /\ VIdle
    /\ RIdle
    /\ SIdle

\* get_warren_buffett_analysis(ticker), lines 1044-1176: the metrics are
\* fetched with limit=5 and scored
GetWarrenBuffettAnalysis(ticker) ==
    /\ analysis.kind = "none"
    /\ GetFinancialMetrics(ticker, Today, <<"ttm">>, 5)
    /\ analysis' = [kind |-> "basic",
                    warren_buffett_score |->
                        WarrenBuffettScore(call'.ret, industry)]
    /\ UNCHANGED <<industry, peers, vvars, rvars>>

\* get_enhanced_warren_buffett_analysis(ticker), lines 1321-1405: the basic
\* analysis, then the peer comparison
GetEnhancedWarrenBuffettAnalysis(ticker) ==
    /\ analysis.kind = "none"
    /\ GetFinancialMetrics(ticker, Today, <<"ttm">>, 5)
    /\ analysis' = [kind |-> "enhanced",
                    warren_buffett_score |->
                        EnhancedScore(WarrenBuffettScore(call'.ret, industry),
                                      peers, ticker)]
    /\ UNCHANGED <<industry, peers, vvars, rvars>>

\* a caller asks for the basic analysis of the subject
Call_get_warren_buffett_analysis ==
    GetWarrenBuffettAnalysis(Subject) /\ UNCHANGED svars

\* a caller asks for the enhanced analysis of the subject
Call_get_enhanced_warren_buffett_analysis ==
    GetEnhancedWarrenBuffettAnalysis(Subject) /\ UNCHANGED svars

NextBuffett ==
    \/ Call_get_warren_buffett_analysis
    \/ Call_get_enhanced_warren_buffett_analysis

SpecBuffett == InitBuffett /\ [][NextBuffett]_vars

----------------------------------------------------------------------------
(* get_real_time_quotes and get_market_cap: three primary attempts, then  *)
(* the backup method                                                       *)

retry_count == 3     \* lines 665 and 730

\* the tickers a caller may ask quotes for
TickerLists ==
    UNION {[1..n -> {Subject, OtherTicker}] : n \in 0..2}

\* the cells of the primary table's price and market-value columns
SpotCells == {CNum(IntNum(10)), CNum(Num(25, 1, -1)), CStr(<<"-">>), CNone}

\* what ak.stock_zh_a_spot_em() can yield: an exception, None, or a table
\* with a row for some tickers (none: the empty table)
SpotAnswers ==
    {[st |-> "raise"], [st |-> "none"]}
    \cup {[st |-> "ok", rows |-> f] :
             f \in UNION {[d -> SpotCells] : d \in SUBSET {Subject, OtherTicker}}}

\* lines 738-756: one entry per requested ticker found in the table, or the
\* exception a conversion raises
RECURSIVE QuoteEntries(_, _)
QuoteEntries(tickers, rows) ==
    IF tickers = << >> THEN Ret(<< >>)
    ELSE LET rest == QuoteEntries(Tail(tickers), rows)
             price == ToFloat(rows[Head(tickers)])
         IN  IF Head(tickers) \notin DOMAIN rows THEN rest
             ELSE IF price.o = "raise" THEN price
             ELSE IF rest.o = "raise" THEN rest
             ELSE Ret(<<[ticker |-> Head(tickers), price |-> price.v]>>
                      \o rest.v)

\* lines 733-760: one primary attempt of get_real_time_quotes
QuotesAttempt(tickers, a) ==
    IF a.st = "raise" THEN Raise("Exception")
    ELSE IF a.st = "none" \/ DOMAIN a.rows = {} THEN Ret(<< >>)
    ELSE QuoteEntries(tickers, a.rows)

\* lines 668-684: one primary attempt of get_market_cap
MarketCapAttempt(ticker, a) ==
    IF a.st = "raise" THEN Raise("Exception")
    ELSE IF a.st = "none" \/ DOMAIN a.rows = {} THEN Ret(None)
    ELSE IF ticker \notin DOMAIN a.rows THEN Ret(None)
    ELSE IF a.rows[ticker] = CNone THEN Ret(None)
    ELSE ToFloat(a.rows[ticker])

\* mutant of AfterRaise: the backup method follows the second exception
AfterRaise_backup_early(i) == IF i >= 1 THEN "backup" ELSE "primary"

\* lines 684-688 and 760-764: after an attempt raised, the loop goes on
\* unless it was the last attempt, which hands over to the backup method
AfterRaise(i) == IF i = retry_count - 1 THEN "backup" ELSE "primary"

\* what ak.stock_zh_a_hist can yield for one ticker
HistCells ==
    {[t |-> "raise"], [t |-> "nodata"], CNum(IntNum(9)), CStr(<<"-">>)}

HistAnswers == [{Subject, OtherTicker} -> HistCells]

\* lines 766-792: the backup of get_real_time_quotes, ticker by ticker; a
\* ticker whose lookup or conversion raises is skipped
RECURSIVE QuotesBackup(_, _)
QuotesBackup(tickers, b) ==
    IF tickers = << >> THEN << >>
    ELSE LET rest == QuotesBackup(Tail(tickers), b)
             cell == b[Head(tickers)]
         IN  IF cell.t \in {"raise", "nodata"} THEN rest
             ELSE IF ToFloat(cell).o = "raise" THEN rest
             ELSE <<[ticker |-> Head(tickers), price |-> ToFloat(cell).v]>>
                  \o rest

\* what ak.stock_individual_info_em can yield: an exception, None, or the
\* value cell of the market-value item (absent without the item)
InfoAnswers ==
    {[t |-> "raise"], [t |-> "nodata"], [t |-> "absent"], CNone,
     CNum(IntNum(5)),
     CStr(<<"1", ".", "5", "yi">>), CStr(<<"2", "wan">>), CStr(<<"3">>),
     CStr(<<"x">>), CStr(<<"x", "yi">>)}

\* lines 690-716: the backup of get_market_cap; a failed conversion of a
\* suffixed string ends in the except clause, which returns None
MarketCapBackup(b) ==
    IF b.t \in {"raise", "nodata", "absent"} THEN None
    ELSE IF b.t = "num" THEN b.v
    ELSE IF b.t # "str" THEN None
    ELSE LET r == IF Contains(b.s, "yi")
                  THEN Times(ParseFloat(Remove(b.s, "yi")), Yi)
                  ELSE IF Contains(b.s, "wan")
                  THEN Times(ParseFloat(Remove(b.s, "wan")), Wan)
                  ELSE ParseFloat(b.s)
         IN  IF r.o = "raise" THEN None ELSE r.v

InitQuotes ==
    /\ RIdle
    /\ SIdle
    /\ XIdle
    /\ QIdle
    /\ MIdle
    /\ VIdle
    /\ BIdle

\* a caller asks for the quotes of a list of tickers
Call_get_real_time_quotes ==
    /\ rpc = "idle"
    /\ \E tickers \in TickerLists : rtickers' = tickers
    /\ rfn' = "get_real_time_quotes"
    /\ rpc' = "primary"
    /\ attempt' = 0
    /\ UNCHANGED <<primary_calls, primary_raised, backup_runs, rout>>
    /\ UNCHANGED <<xvars, qvars, mvars, vvars, bvars, svars>>

\* a caller asks for the market value of one ticker
Call_get_market_cap ==
    /\ rpc = "idle"
    /\ \E ticker \in {Subject, OtherTicker} : rtickers' = <<ticker>>
    /\ rfn' = "get_market_cap"
    /\ rpc' = "primary"
    /\ attempt' = 0
    /\ UNCHANGED <<primary_calls, primary_raised, backup_runs, rout>>
    /\ UNCHANGED <<xvars, qvars, mvars, vvars, bvars, svars>>

\* one pass of the retry loop's body: the primary provider is called; a
\* result ends the call, an exception leads to the next pass or the backup
PrimaryAttempt ==
    /\ rpc = "primary"
    /\ \E a \in SpotAnswers :
          LET r == IF rfn = "get_real_time_quotes"
                   THEN QuotesAttempt(rtickers, a)
                   ELSE MarketCapAttempt(rtickers[1], a)
          IN  /\ primary_calls' = primary_calls + 1
              /\ IF r.o = "raise"
                 THEN /\ primary_raised' = primary_raised + 1
                      /\ rpc' = AfterRaise(attempt)
                      /\ attempt' = IF AfterRaise(attempt) = "primary"
                                    THEN attempt + 1 ELSE attempt
                      /\ rout' = rout
                 ELSE /\ rpc' = "done"
                      /\ rout' = r
                      /\ UNCHANGED <<primary_raised, attempt>>
    /\ UNCHANGED <<rfn, rtickers, backup_runs>>
    /\ UNCHANGED <<xvars, qvars, mvars, vvars, bvars, svars>>

\* the backup method, run inside the last attempt's except clause; whatever
\* happens in it, the call returns
BackupMethod ==
    /\ rpc = "backup"
    /\ backup_runs' = backup_runs + 1
    /\ rpc' = "done"
    /\ IF rfn = "get_real_time_quotes"
       THEN \E b \in HistAnswers : rout' = Ret(QuotesBackup(rtickers, b))
       ELSE \E b \in InfoAnswers : rout' = Ret(MarketCapBackup(b))
    /\ UNCHANGED <<rfn, rtickers, attempt, primary_calls, primary_raised>>
    /\ UNCHANGED <<xvars, qvars, mvars, vvars, bvars, svars>>

NextQuotes ==
    \/ Call_get_real_time_quotes
    \/ Call_get_market_cap
    \/ PrimaryAttempt
    \/ BackupMethod

SpecQuotes == InitQuotes /\ [][NextQuotes]_vars

\* a call that was started keeps running: the loop body and the backup
\* method are straight-line code around provider calls that return or raise
SpecQuotesFair ==
    SpecQuotes /\ WF_vars(PrimaryAttempt) /\ WF_vars(BackupMethod)

----------------------------------------------------------------------------
(* StockService.get_stock_analysis (app/backend/services/stock_service.py) *)

\* dict.get(key): the value under the key, None without it
DictGet(d, key) == IF key \in DOMAIN d THEN d[key] ELSE None

\* the dict get_enhanced_warren_buffett_analysis returns: the score sits
\* under 'warren_buffett_score' (akshare-api.py lines 1052-1062 and 1125)
AnalysisDict(ticker, a) ==
    [ticker |-> ticker,
     analysis_date |-> Today,
     warren_buffett_score |->
         [components |-> a.warren_buffett_score.components,
          total_score |-> IntNum(a.warren_buffett_score.total_score),
          max_score |-> IntNum(a.warren_buffett_score.max_score),
          grade |-> a.warren_buffett_score.grade]]

\* lines 141-148: the response built from the analysis dict
BuffettResponse(ticker, analysis_type, analysis_data) ==
    [st |-> "ok",
     ticker |-> ticker,
     analysis_type |-> analysis_type,
     score |-> DictGet(analysis_data, "total_score"),
     recommendation |-> DictGet(analysis_data, "investment_recommendation"),
     key_metrics |-> DictGet(analysis_data, "key_metrics"),
     analysis_details |-> DictGet(analysis_data, "detailed_analysis")]

\* lines 152-157: the response built from the valuation metrics; score and
\* recommendation are left at their default
ValuationResponse(ticker, analysis_type, valuation_data) ==
    [st |-> "ok",
     ticker |-> ticker,
     analysis_type |-> analysis_type,
     score |-> None,
     recommendation |-> None,
     key_metrics |-> valuation_data,
     analysis_details |-> valuation_data]

AnalysisTypes == {"warren_buffett", "valuation", "momentum"}

\* the statement tables the service's analyses are run on
ServiceBenefitTables ==
    {Table("raise", <<>>),
     Table("ok", <<[period |-> 1, prof |-> 3]>>),
     Table("ok", <<[period |-> 1, prof |-> 5]>>)}

ServiceDebtTables ==
    {Table("ok", <<[period |-> 1, prof |-> 3]>>),
     Table("ok", <<[period |-> 1, prof |-> 9]>>)}

\* the market data the service's valuation is run on
ServiceValuationData ==
    {[quote |-> IntNum(30),
      info |-> [st |-> "raise", cells |-> << >>],
      spot |-> [st |-> sp, row |-> << >>]] : sp \in {"raise", "norow"}}

InitService ==
    /\ benefit \in ServiceBenefitTables
    /\ debt \in ServiceDebtTables
    /\ abstract = Unfetched
    /\ cache = << >>
    /\ ncalls = 0
    /\ call = NoCall
    /\ industry \in Industries
    /\ peers \in PeerAnalyses
    /\ analysis = [kind |-> "none"]
    /\ vdata \in ServiceValuationData
    /\ vratio = None
    /\ vfn = ""
    /\ vout = << >>
    /\ XIdle
    /\ QIdle
    /\ RIdle
    /\ SIdle

\* StockService.get_stock_analysis(ticker, analysis_type), lines 135-163
GetStockAnalysis(ticker, analysis_type) ==
    /\ response.st = "none"
    /\ IF analysis_type = "warren_buffett"
       THEN /\ GetEnhancedWarrenBuffettAnalysis(ticker)
            /\ response' = BuffettResponse(ticker, analysis_type,
                                           AnalysisDict(ticker, analysis'))
       ELSE /\ response' =
                   IF analysis_type = "valuation"
                   THEN ValuationResponse(ticker, analysis_type,
                                          get_valuation_metrics(vdata))
                   ELSE [st |-> "raise", exc |-> "Exception"]
            /\ UNCHANGED <<xvars, qvars, mvars, vvars, bvars, rvars>>

\* a client asks the service for an analysis of the subject
Call_get_stock_analysis ==
    \E analysis_type \in AnalysisTypes : GetStockAnalysis(Subject, analysis_type)

NextService == Call_get_stock_analysis

SpecService == InitService /\ [][NextService]_vars

----------------------------------------------------------------------------
(* Properties of the extractors (checked under SpecExtract) *)

\* a decimal numeral: digits with at most one point and at least one digit
IsNumeral(s) ==
    /\ \A i \in 1..Len(s) : s[i] \in Digits \cup {"."}
    /\ Cardinality({i \in 1..Len(s) : s[i] = "."}) <= 1
    /\ \E i \in 1..Len(s) : s[i] \in Digits

\* the number a numeral denotes, summed digit by digit from position i on;
\* p is the position of the point (Len(s) + 1 when there is none)
RECURSIVE DigitSum(_, _, _)
DigitSum(s, i, p) ==
    IF i > Len(s) THEN IntNum(0)
    ELSE IF i = p THEN DigitSum(s, i + 1, p)
    ELSE Add(Num(DigitVal(s[i]), 1, IF i < p THEN p - 1 - i ELSE p - i),
             DigitSum(s, i + 1, p))

DecimalValue(s) ==
    LET dots == {i \in 1..Len(s) : s[i] = "."}
    IN  DigitSum(s, 1, IF dots = {} THEN Len(s) + 1 ELSE CHOOSE i \in dots : TRUE)

\* C5: for every raw cell and every multiplier safe_extract_value returns a
\* number or None; it never raises.
C5_NeverRaises ==
    xfn = "safe_extract_value" => xout.o = "return"

\* C6: safe_extract_value returns None, without raising, for the empty
\* string, the token 'False' and None, whatever the multiplier.
C6_SentinelsAreMissing ==
    (xfn = "safe_extract_value" /\ xin \in {CStr(<<>>), CStr(<<"False">>), CNone})
        => xout = Ret(None)

C6_Witness ==
    /\ xfn = "safe_extract_value"
    /\ xin = CStr(<<"False">>)
    /\ xmul = IntNum(-2)
    /\ xout = Ret(None)

\* C7: a numeric zero cell is data: safe_extract_value and the fallback's
\* safe_float return the number 0 for it, not None.
C7_ZeroIsData ==
    (xfn \in {"safe_extract_value", "safe_float_fallback"} /\ xin = CNum(IntNum(0)))
        => (xout.o = "return" /\ IsZero(xout.v))

\* C8: with multiplier 1, a decimal numeral followed by one unit suffix gives
\* numeral * 10^8 for the hundred-million unit, numeral * 10^4 for the
\* ten-thousand unit, and the numeral itself (not divided by 100) for %.
C8_SuffixScaling ==
    /\ (xfn = "safe_extract_value" /\ xmul = IntNum(1) /\ xin.t = "str"
        /\ Len(xin.s) >= 2 /\ xin.s[Len(xin.s)] \in Suffixes
        /\ IsNumeral(SubSeq(xin.s, 1, Len(xin.s) - 1)))
          => LET n == DecimalValue(SubSeq(xin.s, 1, Len(xin.s) - 1))
                 u == xin.s[Len(xin.s)]
             IN  xout = Ret(CASE u = "yi"  -> Mul(n, IntNum(100000000))
                              [] u = "wan" -> Mul(n, IntNum(10000))
                              [] u = "%"   -> n)
    /\ (xfn = "safe_extract_value" /\ xmul = IntNum(1))
          => /\ xin = CStr(<<"1", ".", "5", "yi">>) => xout = Ret(IntNum(150000000))
             /\ xin = CStr(<<"2", "wan">>) => xout = Ret(IntNum(20000))
             /\ xin = CStr(<<"1", "2", ".", "5", "%">>) => xout = Ret(Num(125, 10, 0))

C8_Witness ==
    /\ xfn = "safe_extract_value"
    /\ xmul = IntNum(1)
    /\ xin = CStr(<<"1", ".", "5", "yi">>)
    /\ xout = Ret(IntNum(150000000))

----------------------------------------------------------------------------
(* Properties of the ratio registry (checked under SpecRatio) *)

\* cells that mean "no data"
MissingCells == {CNone, CBool(FALSE), CStr(<<>>)}

\* the registry fields that divide, and the column each divides by
RatioNames == {"debt_to_equity", "return_on_equity", "return_on_assets",
               "asset_turnover", "current_ratio", "quick_ratio",
               "gross_margin", "operating_margin", "net_margin"}

DenominatorOf(name) == calculated_fields[name][Len(calculated_fields[name])]

\* C9: get_field_value returns None (not 0.0, not infinity, no exception) for
\* a registry field whenever one of the columns it reads is missing or, for a
\* ratio, the denominator is zero.
C9_MissingNotZero ==
    (/\ qname \in DOMAIN calculated_fields
     /\ \/ \E col \in ColumnsOf(qname) : RowGet(qrow, col) \in MissingCells
        \/ /\ qname \in RatioNames
           /\ RowGet(qrow, DenominatorOf(qname)) = CNum(IntNum(0)))
        => qout = Ret(None)

----------------------------------------------------------------------------
(* Properties of get_financial_metrics (checked under Spec) *)

\* the periods of the returned records, in order
RetPeriods == [i \in 1..Len(call.ret) |-> call.ret[i].report_period]

\* the periods both tables hold
Common == PeriodsOf(benefit) \cap PeriodsOf(debt)

\* the row kinds of the first rows of period p make the construction raise
Fails(p) ==
    \E i \in 1..Len(benefit.rows), j \in 1..Len(debt.rows) :
        /\ benefit.rows[i].period = p
        /\ \A k \in 1..(i - 1) : benefit.rows[k].period # p
        /\ debt.rows[j].period = p
        /\ \A k \in 1..(j - 1) : debt.rows[k].period # p
        /\ AlignedFieldsOf[benefit.rows[i].prof, debt.rows[j].prof].o = "raise"

\* the periods the call keeps: the common ones, most recent first, cut to limit
Retained == Slice(SortDesc(Common), call.args.limit)

StrictlyDescending(ps) == \A i \in 1..(Len(ps) - 1) : ps[i] > ps[i + 1]

\* C1: on the aligned path every returned record's period occurs in both
\* tables, a period of only one table yields no record, no period yields two
\* records, and every retained period whose construction does not fail
\* yields exactly one; periods {1,2,3} and {2,3,4} give exactly {2,3}.
C1_AlignedIntersection ==
    call.path = "aligned" =>
        /\ \A i \in 1..Len(call.ret) :
              /\ call.ret[i].report_period \in PeriodsOf(benefit)
              /\ call.ret[i].report_period \in PeriodsOf(debt)
        /\ \A p \in (PeriodsOf(benefit) \cup PeriodsOf(debt)) \ Common :
              \A i \in 1..Len(call.ret) : call.ret[i].report_period # p
        /\ \A i, j \in 1..Len(call.ret) :
              i # j => call.ret[i].report_period # call.ret[j].report_period
        /\ \A i \in 1..Len(Retained) :
              ~Fails(Retained[i]) =>
                  Cardinality({k \in 1..Len(call.ret) :
                                  call.ret[k].report_period = Retained[i]}) = 1
        /\ (/\ PeriodsOf(benefit) = {1, 2, 3} /\ PeriodsOf(debt) = {2, 3, 4}
            /\ call.args.limit >= 2 /\ ~Fails(2) /\ ~Fails(3))
              => RetPeriods = <<3, 2>>

C1_Witness ==
    /\ call.path = "aligned"
    /\ PeriodsOf(benefit) = {1, 2, 3}
    /\ Len(benefit.rows) = 3
    /\ PeriodsOf(debt) = {2, 3, 4}
    /\ RetPeriods = <<3, 2>>

\* C2: for every integer limit, when no period's construction fails, the
\* aligned path returns the min(max(limit, 0), n) greatest of the n common
\* periods in strictly descending order, never more than max(limit, 0).
C2_TopLimit ==
    (call.path = "aligned" /\ \A p \in Common : ~Fails(p)) =>
        /\ RetPeriods = SubSeq(SortDesc(Common), 1,
                               Min(Max(call.args.limit, 0), Cardinality(Common)))
        /\ StrictlyDescending(RetPeriods)
        /\ Len(call.ret) <= Max(call.args.limit, 0)

\* the provider call returned None or a frame without rows
EmptyOrAbsent(t) == t.st = "none" \/ (t.st = "ok" /\ t.rows = <<>>)

\* the call returned the empty list: no exception, no fallback, no cache entry
ReturnedEmpty ==
    /\ call.ret = <<>>
    /\ ~call.raised
    /\ call.path = "empty"
    /\ abstract = Unfetched
    /\ ~call.wrote
    /\ cache = << >>

RECURSIVE Surviving(_)
Surviving(ps) ==
    IF ps = <<>> THEN <<>>
    ELSE IF Fails(Head(ps)) THEN Surviving(Tail(ps))
    ELSE <<Head(ps)>> \o Surviving(Tail(ps))

\* C4: a retained period whose construction raises is the only one left
\* out: the other retained periods yield their records in the same
\* descending order, and the call neither raises nor takes the fallback.
C4_FailureIsolated ==
    call.path = "aligned" =>
        /\ RetPeriods = Surviving(Retained)
        /\ StrictlyDescending(RetPeriods)
        /\ ~call.raised
        /\ abstract = Unfetched

C4_Witness ==
    /\ call.path = "aligned"
    /\ Retained = <<3, 2, 1>>
    /\ Fails(2) /\ ~Fails(3) /\ ~Fails(1)
    /\ RetPeriods = <<3, 1>>

\* C10: every numeric field of every returned record, on either path, is a
\* finite number or None: never NaN, never infinite.
C10_FiniteOrMissing ==
    call.path # "none" =>
        \A i \in 1..Len(call.ret) : \A f \in NumericFields :
            call.ret[i][f].k \in {"num", "none"}

----------------------------------------------------------------------------
(* Properties of the valuation scorer (checked under SpecValuation) *)

\* a finite ratio in hundredths (the ratios handed over have no more than
\* two decimals)
Hundredths(r) == r.n * Pow10(r.e + 2)

\* band thresholds in hundredths
PEBounds == <<1000, 1500, 2000, 3000>>

PBBounds == <<100, 150, 250, 400>>

BandLabels ==
    <<"very_attractive", "attractive", "fair", "expensive", "very_expensive">>

BandScores == <<95, 85, 70, 40, 10>>

\* the first band whose threshold exceeds h, the last band if none does
BandOf(h, bounds) ==
    LET below == {i \in 1..Len(bounds) : h < bounds[i]}
    IN  IF below = {} THEN Len(bounds) + 1
        ELSE CHOOSE i \in below : \A j \in below : i <= j

\* the (label, score) pair the band table gives ratio r of kind k
ExpectedPair(r, k) ==
    LET negative == IF k = "pe" THEN "negative_earnings" ELSE "negative_book_value"
        bounds == IF k = "pe" THEN PEBounds ELSE PBBounds
        band == IF r.k = "num" THEN BandOf(Hundredths(r), bounds) ELSE 5
    IN  IF r.k = "none" THEN <<"unknown", 50>>
        ELSE IF (r.k = "num" /\ r.n <= 0) \/ (r.k = "inf" /\ r.s < 0)
             THEN <<negative, 0>>
        ELSE <<BandLabels[band], BandScores[band]>>

\* C11: for either kind and every ratio, the label of analyze_pe_ratio /
\* analyze_pb_ratio and the score of get_valuation_score are the pair of one
\* band: missing gives (unknown, 50), a ratio <= 0 gives (negative_*, 0), and
\* otherwise the first threshold above the ratio decides both.
C11_LabelScorePairs ==
    vfn \in {"pe", "pb"} =>
        <<vout.assessment, vout.score>> = ExpectedPair(vratio, vfn)

\* the examples of the scorer: 8.0 as PE, -3.0 as PE, a missing PB
C11_Witness ==
    \/ vfn = "pe" /\ vratio = IntNum(8)
          /\ vout = [assessment |-> "very_attractive", score |-> 95]
    \/ vfn = "pe" /\ vratio = IntNum(-3)
          /\ vout = [assessment |-> "negative_earnings", score |-> 0]
    \/ vfn = "pb" /\ vratio = None
          /\ vout = [assessment |-> "unknown", score |-> 50]

\* the verdict for two scores: their mean against 80, 60 and 40
StepOfMean(a, b) ==
    IF a + b >= 2 * 80 THEN "attractive"
    ELSE IF a + b >= 2 * 60 THEN "fair"
    ELSE IF a + b >= 2 * 40 THEN "expensive"
    ELSE "overvalued"

\* C12: whenever get_valuation_metrics ends with a numeric PE ratio and a
\* numeric PB ratio (positive, negative or zero), overall_valuation is the
\* step function of the mean of the two scores.
C12_OverallFromMean ==
    (/\ vfn = "get_valuation_metrics"
     /\ vout.pe_ratio.k = "num"
     /\ vout.pb_ratio.k = "num")
        => vout.overall_valuation =
               StepOfMean(ExpectedPair(vout.pe_ratio, "pe")[2],
                          ExpectedPair(vout.pb_ratio, "pb")[2])

\* C19: when exactly one of the two ratios is missing, it counts as the
\* neutral score 50 and overall_valuation is the verdict for the mean of 50
\* and the other ratio's score.
C19_MissingIsNeutral ==
    (/\ vfn = "get_valuation_metrics"
     /\ (vout.pe_ratio = None) # (vout.pb_ratio = None))
        => vout.overall_valuation =
               StepOfMean(IF vout.pe_ratio = None THEN 50
                          ELSE ExpectedPair(vout.pe_ratio, "pe")[2],
                          IF vout.pb_ratio = None THEN 50
                          ELSE ExpectedPair(vout.pb_ratio, "pb")[2])

----------------------------------------------------------------------------
(* Properties of repeated and failing calls of get_financial_metrics *)

C18_FetchFailurePropagates ==
    (call.path \notin {"none", "cache"} /\ FetchRaises(benefit, debt))
        => call.raised

----------------------------------------------------------------------------
(* Properties of the composite scoring (checked under SpecBuffett) *)

\* v > t10 / 10 for a finite v, compared in integers
AboveTenths(v, t10) ==
    LET k == IF v.e < -1 THEN (-1) - v.e ELSE 0
    IN  v.n * Pow10(v.e + 1 + k) > t10 * v.d * Pow10(k)

\* v < t10 / 10 for a finite v, compared in integers
BelowTenths(v, t10) ==
    LET k == IF v.e < -1 THEN (-1) - v.e ELSE 0
    IN  v.n * Pow10(v.e + 1 + k) < t10 * v.d * Pow10(k)

\* points for "more is better" signals: above hi, above mid, above lo
PointsAbove(v, hi, mid, lo, points) ==
    IF v.k \in {"none", "nan"} THEN 0
    ELSE IF v.k = "inf" THEN (IF v.s > 0 THEN points[1] ELSE 0)
    ELSE IF AboveTenths(v, hi) THEN points[1]
    ELSE IF AboveTenths(v, mid) THEN points[2]
    ELSE IF AboveTenths(v, lo) THEN points[3]
    ELSE 0

\* points for debt-to-equity: below 0.3, below 0.6, below 1.0, for every
\* present value, zero and negative values included
PointsBelow(v) ==
    IF v.k \in {"none", "nan"} THEN 0
    ELSE IF v.k = "inf" THEN (IF v.s < 0 THEN 8 ELSE 0)
    ELSE IF BelowTenths(v, 3) THEN 8
    ELSE IF BelowTenths(v, 6) THEN 5
    ELSE IF BelowTenths(v, 10) THEN 2
    ELSE 0

\* the score of the latest analysis
Score == analysis.warren_buffett_score

\* C13: with a latest-period record, financial_strength is
\* f(return_on_equity) + g(debt_to_equity) + h(net_margin) with f: >15 10,
\* >10 7, >5 4; g: <0.3 8, <0.6 5, <1.0 2 for every present value, 0 and
\* negative values included; h: >20 7, >10 4, >5 2; a missing signal adds 0.
C13_FinancialStrength ==
    (analysis.kind # "none" /\ call.ret # <<>>) =>
        Score.components.financial_strength =
            PointsAbove(call.ret[1].return_on_equity, 150, 100, 50, <<10, 7, 4>>)
            + PointsBelow(call.ret[1].debt_to_equity)
            + PointsAbove(call.ret[1].net_margin, 200, 100, 50, <<7, 4, 2>>)

\* the entries of the peer list
PeerStocks == peers.peer_stocks

\* the subject is in the peer list
SubjectListed == \E i \in 1..Len(PeerStocks) : PeerStocks[i].ticker = Subject

\* the subject's percentage change (a whole number in every peer list)
SubjectChange ==
    (PeerStocks[CHOOSE i \in 1..Len(PeerStocks) :
                    PeerStocks[i].ticker = Subject]).change_pct.n

\* the peers with a non-zero change, and those of them below the subject
NonZeroPeers == {i \in 1..Len(PeerStocks) : PeerStocks[i].change_pct.n # 0}

BeatenPeers == {i \in NonZeroPeers : PeerStocks[i].change_pct.n < SubjectChange}

\* +5 above 0.8, +3 above 0.6, +1 above 0.4 for the fraction beaten / all
BonusFor(beaten, all) ==
    IF 10 * beaten > 8 * all THEN 5
    ELSE IF 10 * beaten > 6 * all THEN 3
    ELSE IF 10 * beaten > 4 * all THEN 1
    ELSE 0

\* the components get_warren_buffett_analysis gives, before any peer bonus
BaseComponents == WarrenBuffettScore(call.ret, industry).components

\* C14: in the enhanced analysis, with the subject in the peer list and a
\* peer with a non-zero change, competitive_advantage grows once by 5, 3, 1
\* or 0 for the fraction F = (non-zero peers strictly below the subject) /
\* (non-zero peers), and no other component changes.
C14_PeerBonus ==
    (/\ analysis.kind = "enhanced"
     /\ peers.st = "ok"
     /\ SubjectListed
     /\ NonZeroPeers # {})
        => Score.components =
               [BaseComponents EXCEPT
                   !.competitive_advantage =
                       @ + BonusFor(Cardinality(BeatenPeers),
                                    Cardinality(NonZeroPeers))]

\* the subject beats two of three non-zero peers: +3
C14_Witness ==
    /\ analysis.kind = "enhanced"
    /\ peers.st = "ok"
    /\ SubjectListed
    /\ Cardinality(NonZeroPeers) = 3
    /\ Cardinality(BeatenPeers) = 2
    /\ Score.components.competitive_advantage
           = BaseComponents.competitive_advantage + 3

\* C15: in every result with a score, total_score is the sum of the five
\* components and grade is A from 80, B from 60, C from 40, else D, also
\* after the peer adjustment.
C15_TotalAndGrade ==
    analysis.kind # "none" =>
        /\ Score.total_score =
               Score.components.business_understandability
               + Score.components.competitive_advantage
               + Score.components.financial_strength
               + Score.components.management_quality
               + Score.components.valuation_attractiveness
        /\ Score.grade = (IF Score.total_score >= 80 THEN "A"
                          ELSE IF Score.total_score >= 60 THEN "B"
                          ELSE IF Score.total_score >= 40 THEN "C"
                          ELSE "D")

\* a peer bonus lifted the total to exactly 60, grade B
C15_Witness ==
    /\ analysis.kind = "enhanced"
    /\ Score.components.competitive_advantage
           > BaseComponents.competitive_advantage
    /\ Score.total_score = 60
    /\ Score.grade = "B"

\* C16: every component stays in its declared range and the total is at
\* most max_score = 100.
C16_ComponentRanges ==
    analysis.kind # "none" =>
        /\ Score.components.business_understandability \in 0..20
        /\ Score.components.competitive_advantage \in 0..25
        /\ Score.components.financial_strength \in 0..25
        /\ Score.components.management_quality \in 0..15
        /\ Score.components.valuation_attractiveness \in 0..15
        /\ Score.total_score <= Score.max_score
        /\ Score.max_score = 100

\* the greatest competitive advantage and financial strength together
C16_Witness ==
    /\ analysis.kind = "enhanced"
    /\ Score.components.competitive_advantage = 25
    /\ Score.components.financial_strength = 25

\* C20: a subject whose change is strictly greater than that of every other
\* peer of a peer list of two or more gets the full +5 on
\* competitive_advantage.
C20_TopPerformerGetsFive ==
    (/\ analysis.kind = "enhanced"
     /\ peers.st = "ok"
     /\ Len(PeerStocks) >= 2
     /\ SubjectListed
     /\ \A i \in 1..Len(PeerStocks) :
            PeerStocks[i].ticker # Subject
                => PeerStocks[i].change_pct.n < SubjectChange)
        => Score.components.competitive_advantage
               = BaseComponents.competitive_advantage + 5

\* C21: without a peer list, without the subject in it, or without a peer of
\* non-zero change, the enhanced analysis leaves every component, total_score
\* and grade as the base analysis computed them.
C21_NoComparisonNoChange ==
    (/\ analysis.kind = "enhanced"
     /\ \/ peers.st # "ok"
        \/ PeerStocks = <<>>
        \/ ~SubjectListed
        \/ NonZeroPeers = {})
        => Score = WarrenBuffettScore(call.ret, industry)

\* a list of moving peers without the subject, and a score left alone
C21_Witness ==
    /\ analysis.kind = "enhanced"
    /\ peers.st = "ok"
    /\ Len(PeerStocks) >= 2
    /\ ~SubjectListed
    /\ Cardinality(NonZeroPeers) >= 2
    /\ Score = WarrenBuffettScore(call.ret, industry)
    /\ Score.total_score > 0

\* C22 as stated: industry and peer bonuses stack to a total above 100 for
\* some combination.  The total is the sum of the components, so if any
\* combination exceeds 100 then so does the one with the greatest industry
\* scores, the full peer bonus and the greatest financial strength.
C22_Original ==
    (/\ analysis.kind = "enhanced"
     /\ industry = <<"niangjiu">>
     /\ Score.components.competitive_advantage
            = BaseComponents.competitive_advantage + 5
     /\ Score.components.financial_strength = 25)
        => Score.total_score > 100

\* C22 (amended): the total is not clamped, yet no combination of record,
\* industry tag and peer set lifts it above 68 = 18 + (20 + 5) + 25;
\* management_quality and valuation_attractiveness are never scored.
C22_TotalAtMost68 ==
    analysis.kind # "none" =>
        /\ Score.total_score <= 68
        /\ Score.components.management_quality = 0
        /\ Score.components.valuation_attractiveness = 0

\* the greatest total
C22_Witness ==
    /\ analysis.kind = "enhanced"
    /\ Score.total_score = 68

----------------------------------------------------------------------------
(* Properties of the cache (checked under SpecCache) *)

\* the cache key of the latest call
KeyOf(c) == CacheKey(c.args.ticker, c.args.period, c.args.end_date, c.args.limit)

\* a stored list and a list of records hold the same records in order
SameRecords(stored, records) ==
    /\ Len(stored) = Len(records)
    /\ \A i \in 1..Len(records) :
           /\ DOMAIN stored[i] = DOMAIN records[i]
           /\ \A f \in DOMAIN records[i] : stored[i][f] = records[i][f]

\* C23: once a call has returned a non-empty list through the aligned path
\* its list is in the cache under its parameters' key, no entry is ever
\* dropped or replaced while another call runs, and a call that finds an
\* entry under its key returns that entry's records without either provider
\* fetch (its path is "cache") and without touching the cache.
C23_MemoizedServed ==
    [][ncalls' # ncalls =>
          /\ (call'.path = "aligned" /\ call'.ret # << >>) =>
                 /\ KeyOf(call') \in DOMAIN cache'
                 /\ SameRecords(cache'[KeyOf(call')], call'.ret)
          /\ KeyOf(call') \in DOMAIN cache =>
                 /\ call'.path = "cache"
                 /\ SameRecords(cache[KeyOf(call')], call'.ret)
                 /\ UNCHANGED <<cache, abstract>>
          /\ \A k \in DOMAIN cache :
                 k \in DOMAIN cache' /\ cache'[k] = cache[k]]_vars

\* a third call served from an entry that one of the two earlier calls wrote
C23_Witness ==
    /\ ncalls = 3
    /\ Cardinality(DOMAIN cache) = 1
    /\ call.path = "cache"
    /\ Len(call.ret) = 2
    /\ \A i \in 1..Len(call.ret) :
           /\ call.ret[i].ticker = call.args.ticker
           /\ call.ret[i].period = call.args.period

\* the periods the latest call retained, most recent first
RetainedBy(c) == Slice(SortedCommon(benefit, debt), c.args.limit)

\* the retained periods whose record could be built
Built(c) ==
    {i \in 1..Len(RetainedBy(c)) :
        PeriodRecord(c.args.ticker, c.args.period, RetainedBy(c)[i],
                     benefit, debt).o # "raise"}

\* C24: a call changes the cache only by storing, under its own key, the
\* whole list it returns - one record for every retained period whose record
\* could be built - and only when it took the aligned path with a non-empty
\* list; an empty result, the fallback path and a cache hit write nothing.
C24_WriteOnSuccessOnly ==
    [][ncalls' # ncalls =>
          IF call'.path = "aligned" /\ call'.ret # << >>
          THEN /\ DOMAIN cache' = DOMAIN cache \cup {KeyOf(call')}
               /\ \A k \in DOMAIN cache \ {KeyOf(call')} : cache'[k] = cache[k]
               /\ SameRecords(cache'[KeyOf(call')], call'.ret)
               /\ Len(cache'[KeyOf(call')]) = Cardinality(Built(call'))
               /\ \A i \in Built(call') :
                      \E j \in 1..Len(cache'[KeyOf(call')]) :
                          cache'[KeyOf(call')][j].report_period
                              = RetainedBy(call')[i]
               /\ call'.wrote
          ELSE /\ cache' = cache
               /\ ~call'.wrote]_vars

\* a second entry, of two records, written next to the first call's entry
C24_Witness ==
    /\ ncalls = 2
    /\ call.path = "aligned"
    /\ call.wrote
    /\ Cardinality(DOMAIN cache) = 2
    /\ Len(cache[KeyOf(call)]) = 2

\* the parameter tuples of the callers
ParameterTuples ==
    [ticker : CacheTickers, end_date : EndDates,
     period : CachePeriodArgs, limit : CacheLimits]

\* C25: no parameter tuple other than the latest call's maps to its cache
\* key, and a call served from the cache gets records written for its own
\* ticker and period, never those of another entity.
C25_KeysSeparateTuples ==
    call.path # "none" =>
        /\ \A t \in ParameterTuples :
               CacheKey(t.ticker, t.period, t.end_date, t.limit) = KeyOf(call)
                   => t = call.args
        /\ call.path = "cache" =>
               \A i \in 1..Len(call.ret) :
                   /\ call.ret[i].ticker = call.args.ticker
                   /\ call.ret[i].period = call.args.period

----------------------------------------------------------------------------
(* Properties of the single-source fallback (checked under Spec) *)

\* the rows the fallback walks: the first limit rows of the table
Walked == 1..Min(call.args.limit, Len(abstract.rows))

\* the kind of the i-th row of the consolidated table
KindAt(i) == abstract.rows[i]

\* the walked rows that give a record: date and fields could be built
Emitting ==
    {i \in Walked :
        /\ FallbackDateOf[call.args.end_date, KindAt(i)].o # "raise"
        /\ FallbackFieldsOf[KindAt(i)].o # "raise"}

\* the place in the returned list of the record of walked row i
PlaceOf(i) == Cardinality({j \in Emitting : j <= i})

\* the row has no period field, or the provider's marker for none in it
PeriodMissing(row) ==
    \/ "col_report_period" \notin DOMAIN row
    \/ row["col_report_period"] \in {CStr(<<>>), CBool(FALSE), CStr(<<"False">>)}

----------------------------------------------------------------------------
(* Properties of grouped numerals (checked under SpecExtract) *)

\* a plain numeral with grouping: digits at both ends, only digits, commas
\* and spaces between, and at least one comma or space
Grouped(str) ==
    /\ Len(str) >= 3
    /\ str[1] \in Digits
    /\ str[Len(str)] \in Digits
    /\ \A i \in 1..Len(str) : str[i] \in Digits \cup {",", " "}
    /\ \E i \in 1..Len(str) : str[i] \in {",", " "}

\* the number a grouped numeral denotes
Denoted(str) == IntNum(DigitsVal(Remove(Remove(str, ","), " ")))

\* C27: each of the three extractors gives, for a plain numeral with comma
\* or space grouping, the number it denotes (times the multiplier for
\* safe_extract_value), never missing or the default.
C27_GroupingStripped ==
    (xfn # "" /\ xin.t = "str" /\ Grouped(xin.s)) =>
        xout = Ret(IF xfn = "safe_extract_value"
                   THEN Mul(Denoted(xin.s), xmul)
                   ELSE Denoted(xin.s))

----------------------------------------------------------------------------
(* Properties of the switch to the fallback (checked under Spec) *)

\* the try block raises before the per-period loop: a provider call fails,
\* or both tables hold rows and one of them lacks the period column
RaisesOutsideLoop ==
    \/ benefit.st = "raise"
    \/ debt.st = "raise"
    \/ /\ ~IsEmptyOrNone(benefit)
       /\ ~IsEmptyOrNone(debt)
       /\ "nocol" \in {benefit.st, debt.st}

\* C28: a call that misses the cache and raises outside the per-period loop
\* fetches the consolidated table once and returns what the fallback makes
\* of it, the empty list if that fetch fails too; it raises nothing and
\* leaves the cache as it was.
C28_FallbackOnce ==
    [][(/\ ncalls' # ncalls
        /\ KeyOf(call') \notin DOMAIN cache
        /\ RaisesOutsideLoop)
           => /\ call'.path = "fallback"
              /\ abstract = Unfetched
              /\ abstract' \in AbstractTables
              /\ call'.ret = get_financial_metrics_fallback(
                                 call'.args.ticker, call'.args.end_date,
                                 call'.args.period, call'.args.limit, abstract')
              /\ abstract'.st = "raise" => call'.ret = << >>
              /\ ~call'.raised
              /\ ~call'.wrote
              /\ cache' = cache]_vars

\* a debt table without the period column: the fallback's records returned
C28_Witness ==
    /\ call.path = "fallback"
    /\ benefit.st = "ok"
    /\ debt.st = "nocol"
    /\ Len(call.ret) >= 2
    /\ cache = << >>

\* both the aligned path and the fallback's fetch fail: the empty list
C28_BothFail ==
    /\ call.path = "fallback"
    /\ benefit.st = "raise"
    /\ abstract.st = "raise"
    /\ call.ret = << >>

----------------------------------------------------------------------------
(* Properties of the quote functions (checked under SpecQuotesFair) *)

\* the counts and the outcome of a call at any moment of it
RetryDiscipline ==
    /\ primary_calls <= 3
    /\ primary_raised >= primary_calls - 1
    /\ backup_runs <= 1
    /\ (rpc = "backup" \/ backup_runs = 1) => primary_raised = 3
    /\ rpc = "done" =>
           /\ rout.o = "return"
           /\ primary_calls >= 1
           /\ primary_raised < primary_calls => backup_runs = 0
           /\ primary_raised = primary_calls => backup_runs = 1

\* C29: a call of get_real_time_quotes or get_market_cap ends, returning and
\* not raising, after at most 3 calls of the primary provider; an attempt
\* follows only an attempt that raised, the backup method runs at most
\* once and only after the third attempt raised, and an attempt that
\* returns, with or without data, ends the call.
C29_BoundedRetries ==
    /\ []RetryDiscipline
    /\ (rpc # "idle") ~> (rpc = "done")

\* three attempts raised, the backup method ran, market value returned
C29_Witness ==
    /\ rfn = "get_market_cap"
    /\ rpc = "done"
    /\ primary_calls = 3
    /\ primary_raised = 3
    /\ backup_runs = 1
    /\ rout = Ret(Num(15, 1, 7))

\* the third attempt returned the quotes: no backup
C29_ThirdAttemptReturns ==
    /\ rfn = "get_real_time_quotes"
    /\ rpc = "done"
    /\ primary_calls = 3
    /\ primary_raised = 2
    /\ backup_runs = 0
    /\ Len(rout.v) = 2

----------------------------------------------------------------------------
(* Properties of the service (checked under SpecService) *)

\* C30: a warren_buffett response carries as its score the total_score the
\* scoring engine computed for the ticker, never an absent score.
C30_ScoreCarried ==
    (/\ response.st = "ok"
     /\ response.analysis_type = "warren_buffett"
     /\ analysis.kind = "enhanced")
        => /\ response.score # None
           /\ response.score = IntNum(analysis.warren_buffett_score.total_score)

====
